---- MODULE Spec2Model ----
(***************************************************************************)
(* Model of py_adsb_historical_data_client: the file-based Cache           *)
(* (cache.py) and the download-and-cache orchestration (historical.py).    *)
(*                                                                         *)
(* Byte strings are sequences of byte values, paths are sequences of path  *)
(* components, text is TLA+ strings, and an optional value is None (<<>>)  *)
(* or Some(x) (<<x>>).                                                     *)
(***************************************************************************)
EXTENDS Integers, Sequences, FiniteSets, TLC

VARIABLES
    files,          \* the regular files of the filesystem: path -> bytes
    dirs,           \* the directories of the filesystem: a set of paths
    global_cache,   \* cache.py _global_cache: None or Some(Cache)
    session,        \* the TraceSession object: [cache, session]
    calls,          \* per thread, the download call it is in (or idle)
    last_put,       \* history: per cache root and key, the most recent put
                    \* since the root's last clear: [data, args]
    gen,            \* the generator a get_heatmap_entries call returned
    open_sessions,  \* the requests.Session objects created and not yet closed
    scope_depth,    \* history: the __enter__ calls not yet matched by an __exit__
    zoned           \* the generator a get_zoned_heatmap_entries call returned

vars == <<files, dirs, global_cache, session, calls, last_put, gen, open_sessions,
          scope_depth, zoned>>

None == <<>>
Some(x) == <<x>>

----------------------------------------------------------------------------
(* Bounds and input sets *)

\* at most this many regular files exist at once
MaxFiles == 2

\* the threads of the process; the sequential specifications run every call
\* on the main thread
Threads == {"t1", "t2"}

MainThread == {"t1"}

\* the two cache roots callers hold Cache instances for
CacheRoots == {<<"c1">>, <<"c2">>}

\* the roots set_cache is called with
GlobalRoots == {<<"c1">>}

\* 2023-06-15 14:00, 14:29 (one 30-minute bucket), 14:30, and 2023-06-16 14:00
Timestamps ==
    [year : {2023}, month : {6}, day : {15}, hour : {14}, minute : {0, 29, 30}]
    \cup [year : {2023}, month : {6}, day : {16}, hour : {14}, minute : {0}]

TraceTimestamps == {ts \in Timestamps : ts.day = 15 /\ ts.minute = 0}

\* the identifier "aB1", as its characters
Icaos == {<<"a", "B", "1">>}

\* "aB1" and "Ab1" (one identifier, two spellings), "B1" (their last two
\* characters), "A" and "a"
TraceIds == {<<"a", "B", "1">>, <<"A", "b", "1">>, <<"B", "1">>, <<"A">>, <<"a">>}

\* b"" and b"X"
Bodies == {<<>>, <<88>>}

\* what one GET can produce: a response (status, body) or a transport failure
Responses ==
    [exc : {None}, status_code : {200}, content : Bodies]
    \cup [exc : {None}, status_code : {404}, content : {<<88>>}]
    \cup [exc : {Some("ConnectionError"), Some("Timeout")}, status_code : {0},
          content : {<<>>}]

----------------------------------------------------------------------------
(* Text helpers *)

Pad2(n) == IF n < 10 THEN "0" \o ToString(n) ELSE ToString(n)

Pad4(n) ==
    IF n < 10 THEN "000" \o ToString(n)
    ELSE IF n < 100 THEN "00" \o ToString(n)
    ELSE IF n < 1000 THEN "0" \o ToString(n)
    ELSE ToString(n)

\* str.lower() on one character of the identifier alphabet
LowerChar(c) ==
    CASE c = "A" -> "a"
      [] c = "B" -> "b"
      [] OTHER -> c

lower(s) == [i \in 1..Len(s) |-> LowerChar(s[i])]

\* mutant: a short identifier is padded to two characters
last2_padded(s) ==
    IF Len(s) = 1 THEN <<"0">> \o s
    ELSE IF Len(s) <= 2 THEN s
    ELSE SubSeq(s, Len(s) - 1, Len(s))

\* s[-2:]
last2(s) == IF Len(s) <= 2 THEN s ELSE SubSeq(s, Len(s) - 1, Len(s))

RECURSIVE Join(_)
Join(s) == IF s = <<>> THEN "" ELSE Head(s) \o Join(Tail(s))

\* timestamp.strftime("%Y/%m/%d"), as its three "/"-separated fields
strftime_Ymd(timestamp) ==
    <<Pad4(timestamp.year), Pad2(timestamp.month), Pad2(timestamp.day)>>

DateStr(timestamp) ==
    LET f == strftime_Ymd(timestamp) IN f[1] \o "/" \o f[2] \o "/" \o f[3]

----------------------------------------------------------------------------
(* Filesystem (pathlib / shutil) *)

IsPrefix(r, p) == Len(r) <= Len(p) /\ SubSeq(p, 1, Len(r)) = r

Prefixes(p) == {SubSeq(p, 1, n) : n \in 1..Len(p)}

Parent(p) == SubSeq(p, 1, Len(p) - 1)

\* Path.exists()
exists(fs, p) == p \in DOMAIN fs.files \/ p \in fs.dirs

\* Path.mkdir(parents=True, exist_ok=True)
mkdir(fs, p) == [fs EXCEPT !.dirs = fs.dirs \cup Prefixes(p)]

\* Path.read_bytes()
read_bytes(fs, p) ==
    IF p \in DOMAIN fs.files THEN [exc |-> None, data |-> fs.files[p]]
    ELSE IF p \in fs.dirs THEN [exc |-> Some("IsADirectoryError"), data |-> <<>>]
    ELSE [exc |-> Some("FileNotFoundError"), data |-> <<>>]

\* mutant: the file is opened for appending
write_bytes_append(fs, p, data) ==
    [fs EXCEPT !.files = [q \in DOMAIN fs.files \cup {p} |->
                             IF q # p THEN fs.files[q]
                             ELSE IF p \in DOMAIN fs.files THEN fs.files[p] \o data
                             ELSE data]]

\* what Path.write_bytes raises: the path of a directory cannot be opened
write_bytes_raises(fs, p) == IF p \in fs.dirs THEN Some("IsADirectoryError") ELSE None

\* Path.write_bytes(data): the file is created or truncated, then written whole
write_bytes(fs, p, data) ==
    IF write_bytes_raises(fs, p) # None THEN fs
    ELSE [fs EXCEPT !.files = [q \in DOMAIN fs.files \cup {p} |->
                                  IF q = p THEN data ELSE fs.files[q]]]

\* shutil.rmtree(root)
rmtree(fs, root) ==
    [files |-> [q \in {f \in DOMAIN fs.files : ~IsPrefix(root, f)} |-> fs.files[q]],
     dirs |-> {d \in fs.dirs : ~IsPrefix(root, d)}]

FS == [files |-> files, dirs |-> dirs]

----------------------------------------------------------------------------
(* cache.py: class Cache *)

Cache(cache_path) == [cache_path |-> cache_path]

\* mutant: the minute is rounded to the nearest half hour
Cache_get_heatmap_path_round(self, timestamp) ==
    LET date_path == strftime_Ymd(timestamp)
        filename == timestamp.hour * 2 + ((timestamp.minute + 15) \div 30)
    IN  self.cache_path \o <<"heatmaps">> \o date_path
            \o <<ToString(filename) \o ".bin.ttf">>

Cache_get_heatmap_path(self, timestamp) ==
    LET date_path == strftime_Ymd(timestamp)
        filename == timestamp.hour * 2 + (timestamp.minute \div 30)
    IN  self.cache_path \o <<"heatmaps">> \o date_path
            \o <<ToString(filename) \o ".bin.ttf">>

\* mutant: the identifier is used as given
Cache_get_trace_path_as_given(self, icao, timestamp) ==
    LET date_path == strftime_Ymd(timestamp)
        sub_folder == Join(last2(icao))
        filename == "trace_full_" \o Join(icao) \o ".json"
    IN  self.cache_path \o <<"traces">> \o date_path \o <<sub_folder, filename>>

Cache_get_trace_path(self, icao, timestamp) ==
    LET date_path == strftime_Ymd(timestamp)
        sub_folder == Join(last2(lower(icao)))
        filename == "trace_full_" \o Join(lower(icao)) \o ".json"
    IN  self.cache_path \o <<"traces">> \o date_path \o <<sub_folder, filename>>

\* mutant: FileNotFoundError is not caught
Cache_get_nocatch(fs, path) ==
    LET r == read_bytes(fs, path)
    IN  IF r.exc = None THEN [exc |-> None, value |-> Some(r.data)]
        ELSE [exc |-> r.exc, value |-> None]

\* mutant: "except OSError: return None"
Cache_get_except_OSError(fs, path) ==
    LET r == read_bytes(fs, path)
    IN  IF r.exc = None THEN [exc |-> None, value |-> Some(r.data)]
        ELSE [exc |-> None, value |-> None]

\* the try/except FileNotFoundError around read_bytes of get_heatmap, get_trace
Cache_get(fs, path) ==
    LET r == read_bytes(fs, path)
    IN  IF r.exc = None THEN [exc |-> None, value |-> Some(r.data)]
        ELSE IF r.exc = Some("FileNotFoundError") THEN [exc |-> None, value |-> None]
        ELSE [exc |-> r.exc, value |-> None]

\* what put_heatmap, put_trace raise: path.parent.mkdir(...) finds or makes
\* the directory, path.write_bytes(data) may fail
Cache_put_raises(fs, path) == write_bytes_raises(mkdir(fs, Parent(path)), path)

Cache_put(fs, path, data) == write_bytes(mkdir(fs, Parent(path)), path, data)

\* mutant: the existence of the key's directory is checked
Cache_has_heatmap_dir(fs, self, timestamp) ==
    exists(fs, Parent(Cache_get_heatmap_path(self, timestamp)))

Cache_has_heatmap(fs, self, timestamp) ==
    exists(fs, Cache_get_heatmap_path(self, timestamp))

Cache_get_heatmap(fs, self, timestamp) ==
    Cache_get(fs, Cache_get_heatmap_path(self, timestamp))

Cache_put_heatmap(fs, self, timestamp, data) ==
    Cache_put(fs, Cache_get_heatmap_path(self, timestamp), data)

Cache_has_trace(fs, self, icao, timestamp) ==
    exists(fs, Cache_get_trace_path(self, icao, timestamp))

Cache_get_trace(fs, self, icao, timestamp) ==
    Cache_get(fs, Cache_get_trace_path(self, icao, timestamp))

Cache_put_trace(fs, self, icao, timestamp, data) ==
    Cache_put(fs, Cache_get_trace_path(self, icao, timestamp), data)

\* mutant: only the heatmaps are removed
Cache_clear_heatmaps(fs, self) ==
    IF exists(fs, self.cache_path)
    THEN mkdir(rmtree(fs, self.cache_path \o <<"heatmaps">>), self.cache_path)
    ELSE fs

\* mutant: the parent directory of the root is removed
Cache_clear_parent(fs, self) ==
    IF exists(fs, self.cache_path)
    THEN mkdir(rmtree(fs, Parent(self.cache_path)), self.cache_path)
    ELSE fs

Cache_clear(fs, self) ==
    IF exists(fs, self.cache_path)
    THEN mkdir(rmtree(fs, self.cache_path), self.cache_path)
    ELSE fs

\* the stems of the file names the cache writes
NameStems ==
    {ToString(b) : b \in 0..47}
    \cup {"trace_full_" \o Join(lower(i)) : i \in Icaos \cup TraceIds}

\* fnmatch of a file name against "*" followed by a suffix
fnmatch(name, suffix) == \E stem \in NameStems : name = stem \o suffix

\* mutant: rglob("*"), every name matches
rglob_files_any(fs, root, suffix) ==
    {f \in DOMAIN fs.files : IsPrefix(root, f) /\ Len(f) > Len(root)}

\* Path.rglob("*" + suffix), restricted to the regular files (is_file())
rglob_files(fs, root, suffix) ==
    {f \in DOMAIN fs.files :
        IsPrefix(root, f) /\ Len(f) > Len(root) /\ fnmatch(f[Len(f)], suffix)}

\* the sum of stat().st_size over a set of regular files
RECURSIVE st_size_sum(_, _)
st_size_sum(fs, paths) ==
    IF paths = {} THEN 0
    ELSE LET f == CHOOSE q \in paths : TRUE
         IN  Len(fs.files[f]) + st_size_sum(fs, paths \ {f})

\* every regular file under the root: rglob("*") matches every name
Cache_get_cache_size(fs, self) ==
    st_size_sum(fs, {f \in DOMAIN fs.files :
                        IsPrefix(self.cache_path, f) /\ Len(f) > Len(self.cache_path)})

Cache_get_cache_stats(fs, self) ==
    LET heatmaps_path == self.cache_path \o <<"heatmaps">>
        traces_path == self.cache_path \o <<"traces">>
        heatmap_files == IF exists(fs, heatmaps_path)
                         THEN rglob_files(fs, heatmaps_path, ".bin.ttf") ELSE {}
        trace_files == IF exists(fs, traces_path)
                       THEN rglob_files(fs, traces_path, ".json") ELSE {}
        heatmap_size == st_size_sum(fs, heatmap_files)
        trace_size == st_size_sum(fs, trace_files)
    IN  [heatmap_count |-> Cardinality(heatmap_files),
         trace_count |-> Cardinality(trace_files),
         heatmap_size_bytes |-> heatmap_size,
         trace_size_bytes |-> trace_size,
         total_size_bytes |-> heatmap_size + trace_size]

\* get_cache()
get_cache == global_cache


\* mutant: the process-wide cache is preferred to the argument
EffectiveCacheGlobalFirst(cache) == IF get_cache # None THEN get_cache ELSE cache

\* "cache if cache is not None else get_cache()"
EffectiveCache(cache) == IF cache # None THEN cache ELSE get_cache

----------------------------------------------------------------------------
(* historical.py: exceptions *)

\* the classes an exception class derives from, itself included
Mro(cls) ==
    CASE cls = "HTTPError" -> {"HTTPError", "DownloadError", "ADSBClientError", "Exception"}
      [] cls = "DownloadError" -> {"DownloadError", "ADSBClientError", "Exception"}
      [] cls \in {"ConnectionError", "Timeout"} ->
            {cls, "RequestException", "OSError", "Exception"}
      [] cls \in {"IsADirectoryError", "FileNotFoundError"} ->
            {cls, "OSError", "Exception"}
      [] OTHER -> {cls, "Exception"}

isinstance(e, cls) == cls \in Mro(e.cls)

\* an exception raised outside this package, known by its class
Exc(cls) ==
    [cls |-> cls, url |-> None, status_code |-> None, message |-> <<cls>>, cause |-> None]

\* HTTPError.__init__; message is the sequence of the text's parts
HTTPError(url, status_code, message) ==
    [cls |-> "HTTPError", url |-> Some(url), status_code |-> Some(status_code),
     message |-> IF message # <<>> THEN message
                 ELSE <<"HTTP ", ToString(status_code), " error for ", url>>,
     cause |-> None]

\* raise DownloadError(message) from e
DownloadErrorFrom(message, e) ==
    [cls |-> "DownloadError", url |-> None, status_code |-> None,
     message |-> message, cause |-> Some(e.cls)]

Return(value) == Some([returned |-> Some(value), raised |-> None])

Raise(e) == Some([returned |-> None, raised |-> Some(e)])

\* mutant: "except Exception as e"
ExceptAnyException(e, message) == DownloadErrorFrom(message \o <<e.cls>>, e)

\* mutant: no except clause
ExceptNothing(e, message) == e

\* "except requests.RequestException as e: raise DownloadError(...) from e"
ExceptRequestException(e, message) ==
    IF isinstance(e, "RequestException") THEN DownloadErrorFrom(message \o <<e.cls>>, e)
    ELSE e

----------------------------------------------------------------------------
(* historical.py: URLs *)

ADSBEXCHANGE_HISTORICAL_DATA_URL == "https://globe.adsbexchange.com/globe_history/"

\* mutant: the half hour is rounded up
HeatmapUrlCeil(timestamp) ==
    LET date_str == DateStr(timestamp)
        filename == timestamp.hour * 2 + ((timestamp.minute + 29) \div 30)
    IN  ADSBEXCHANGE_HISTORICAL_DATA_URL \o date_str \o "/heatmap/"
            \o ToString(filename) \o ".bin.ttf"

\* mutant: the file name is the hour's first bucket
HeatmapUrlHour(timestamp) ==
    LET date_str == DateStr(timestamp)
        filename == timestamp.hour * 2
    IN  ADSBEXCHANGE_HISTORICAL_DATA_URL \o date_str \o "/heatmap/"
            \o ToString(filename) \o ".bin.ttf"

HeatmapUrl(timestamp) ==
    LET date_str == DateStr(timestamp)
        filename == timestamp.hour * 2 + (timestamp.minute \div 30)
    IN  ADSBEXCHANGE_HISTORICAL_DATA_URL \o date_str \o "/heatmap/"
            \o ToString(filename) \o ".bin.ttf"

TraceUrl(icao, timestamp) ==
    LET date_str == DateStr(timestamp)
        sub_folder == Join(last2(lower(icao)))
        filename == "trace_full_" \o Join(lower(icao)) \o ".json"
    IN  ADSBEXCHANGE_HISTORICAL_DATA_URL \o date_str \o "/traces/"
            \o sub_folder \o "/" \o filename

----------------------------------------------------------------------------
(* History of puts.  A key is what spec section 3 calls HeatmapKey (the     *)
(* date and the 30-minute interval of the day) and TraceKey (the            *)
(* identifier, case-insensitive, and the date).                             *)

UpperChar(c) ==
    CASE c = "a" -> "A"
      [] c = "b" -> "B"
      [] OTHER -> c

HeatmapKey(timestamp) ==
    [kind |-> "heatmap", id |-> <<>>, year |-> timestamp.year,
     month |-> timestamp.month, day |-> timestamp.day,
     interval |-> (timestamp.hour * 60 + timestamp.minute) \div 30]

TraceKey(icao, timestamp) ==
    [kind |-> "trace", id |-> [i \in 1..Len(icao) |-> UpperChar(icao[i])],
     year |-> timestamp.year, month |-> timestamp.month, day |-> timestamp.day,
     interval |-> 0]

\* the key a download call is for
CallKey(c) ==
    IF c.op = "download_heatmap" THEN HeatmapKey(c.timestamp[1])
    ELSE TraceKey(c.icao[1], c.timestamp[1])

NotePut(root, key, icao, timestamp, data) ==
    LET old == last_put[root]
    IN  [last_put EXCEPT ![root] =
            [k \in DOMAIN old \cup {key} |->
                IF k = key
                THEN [data |-> data, icao |-> icao, timestamp |-> timestamp]
                ELSE old[k]]]

NoteClear(root) ==
    [r \in DOMAIN last_put |-> IF IsPrefix(root, r) THEN <<>> ELSE last_put[r]]

----------------------------------------------------------------------------
(* historical.py: the download calls.  A call runs from its entry to the    *)
(* GET it blocks on (or to its return, on a cache hit), and from the GET's  *)
(* result to its return.                                                    *)

IdleCall ==
    [pc |-> "idle", op |-> "", timestamp |-> None, icao |-> None, cache |-> None,
     effective_cache |-> None, reads |-> {}, gets |-> <<>>, response |-> None,
     writes |-> <<>>, outcome |-> None]

Quiescent == \A t \in Threads : calls[t].pc = "idle"

\* mutant: the GET is issued again (a retry)
IssueGetTwice(c, url) == [c EXCEPT !.pc = "fetching", !.gets = c.gets \o <<url, url>>]

\* requests.get(url, ...) / session.get(url, ...): the call blocks on one GET
IssueGet(c, url) == [c EXCEPT !.pc = "fetching", !.gets = Append(c.gets, url)]

\* mutant: "if cached_data:", an empty cached body counts as a miss
LookupIfNonEmpty(c0, path, url) ==
    IF c0.effective_cache = None
    THEN IssueGet(c0, url)
    ELSE LET cached_data == Cache_get(FS, path)
             c1 == [c0 EXCEPT !.reads = {path}]
         IN  IF cached_data.exc # None
             THEN [c1 EXCEPT !.pc = "done", !.outcome = Raise(Exc(cached_data.exc[1]))]
             ELSE IF cached_data.value # None /\ cached_data.value[1] # <<>>
             THEN [c1 EXCEPT !.pc = "done", !.outcome = Return(cached_data.value[1])]
             ELSE IssueGet(c1, url)

\* entry of a download: the cache lookup, then the GET
Lookup(c0, path, url) ==
    IF c0.effective_cache = None
    THEN IssueGet(c0, url)
    ELSE LET cached_data == Cache_get(FS, path)
             c1 == [c0 EXCEPT !.reads = {path}]
         IN  IF cached_data.exc # None
             THEN [c1 EXCEPT !.pc = "done", !.outcome = Raise(Exc(cached_data.exc[1]))]
             ELSE IF cached_data.value # None
             THEN [c1 EXCEPT !.pc = "done", !.outcome = Return(cached_data.value[1])]
             ELSE IssueGet(c1, url)

\* mutant: every response counts as a success
IsSuccessAlways(response) == response.status_code >= 200

\* "if response.status_code == 200"
IsSuccess(response) == response.status_code = 200

\* mutant: the downloaded bytes are not stored
WriteThroughNever(c, path, content) == <<>>

\* mutant: the bytes are stored only if the key is still absent
WriteThroughIfAbsent(c, path, content) ==
    IF c.effective_cache # None /\ ~exists(FS, path)
    THEN <<[path |-> path, data |-> content]>>
    ELSE <<>>

\* mutant: the process-wide reference is looked at again before the write
WriteThroughIfStillActive(c, path, content) ==
    IF c.effective_cache # None /\ EffectiveCache(c.cache) # None
    THEN <<[path |-> path, data |-> content]>>
    ELSE <<>>

\* "if effective_cache is not None: effective_cache.put_...(..., content)"
WriteThrough(c, path, content) ==
    IF c.effective_cache # None THEN <<[path |-> path, data |-> content]>> ELSE <<>>

\* the try block after the GET and its except clause
AfterGet(c, response, path, failed, network_error) ==
    LET url == c.gets[Len(c.gets)]
        c1 == [c EXCEPT !.pc = "done", !.response = Some(response)]
    IN  IF response.exc # None
        THEN [c1 EXCEPT !.outcome =
                Raise(ExceptRequestException(Exc(response.exc[1]), network_error))]
        ELSE IF IsSuccess(response)
        THEN LET writes == WriteThrough(c, path, response.content)
                 put_exc == IF writes = <<>> THEN None ELSE Cache_put_raises(FS, path)
             IN  IF put_exc # None
                 THEN [c1 EXCEPT !.outcome =
                        Raise(ExceptRequestException(Exc(put_exc[1]), network_error))]
                 ELSE [c1 EXCEPT !.writes = writes, !.outcome = Return(response.content)]
        ELSE LET error_msg == <<failed, url, ": ", ToString(response.status_code)>>
             IN  [c1 EXCEPT !.outcome =
                    Raise(ExceptRequestException(
                            HTTPError(url, response.status_code, error_msg),
                            network_error))]

\* the filesystem after the cache writes of a finished call
Stored(fs, c) ==
    IF c.writes = <<>> THEN fs ELSE Cache_put(fs, c.writes[1].path, c.writes[1].data)

Finish(t, c) ==
    LET fs == Stored(FS, c)
    IN  /\ Cardinality(DOMAIN fs.files) <= MaxFiles
        /\ files' = fs.files
        /\ dirs' = fs.dirs
        /\ calls' = [calls EXCEPT ![t] = c]
        /\ last_put' =
                IF c.writes = <<>> THEN last_put
                ELSE NotePut(c.effective_cache[1].cache_path, CallKey(c),
                             c.icao, c.timestamp[1], c.writes[1].data)
        /\ UNCHANGED <<global_cache, session, gen, open_sessions, scope_depth, zoned>>

download_heatmap(t, timestamp, cache) ==
    /\ calls[t].pc = "idle"
    /\ LET effective_cache == EffectiveCache(cache)
           c0 == [IdleCall EXCEPT !.op = "download_heatmap",
                                  !.timestamp = Some(timestamp), !.cache = cache,
                                  !.effective_cache = effective_cache]
       IN  calls' = [calls EXCEPT ![t] =
                Lookup(c0, Cache_get_heatmap_path(effective_cache[1], timestamp),
                       HeatmapUrl(timestamp))]
    /\ UNCHANGED <<files, dirs, global_cache, session, last_put, gen, open_sessions,
                   scope_depth, zoned>>

download_heatmap_response(t, response) ==
    /\ calls[t].pc = "fetching"
    /\ calls[t].op = "download_heatmap"
    /\ LET c == calls[t]
           url == c.gets[1]
       IN  Finish(t, AfterGet(c, response,
                    Cache_get_heatmap_path(c.effective_cache[1], c.timestamp[1]),
                    "Failed to download heatmap ",
                    <<"Network error downloading heatmap from ", url, ": ">>))

download_traces(t, icao, timestamp, cache) ==
    /\ calls[t].pc = "idle"
    /\ LET effective_cache == EffectiveCache(cache)
           c0 == [IdleCall EXCEPT !.op = "download_traces", !.icao = Some(icao),
                                  !.timestamp = Some(timestamp), !.cache = cache,
                                  !.effective_cache = effective_cache]
       IN  calls' = [calls EXCEPT ![t] =
                Lookup(c0, Cache_get_trace_path(effective_cache[1], icao, timestamp),
                       TraceUrl(icao, timestamp))]
    /\ UNCHANGED <<files, dirs, global_cache, session, last_put, gen, open_sessions,
                   scope_depth, zoned>>

download_traces_response(t, response) ==
    /\ calls[t].pc = "fetching"
    /\ calls[t].op = "download_traces"
    /\ LET c == calls[t]
           url == c.gets[1]
       IN  Finish(t, AfterGet(c, response,
                    Cache_get_trace_path(c.effective_cache[1], c.icao[1], c.timestamp[1]),
                    "Failed to download trace ",
                    <<"Network error downloading trace for ", Join(c.icao[1]), " from ",
                      url, ": ">>))


----------------------------------------------------------------------------
(* historical.py: class TraceSession *)

SessionCaches == {None, Some(Cache(<<"c2">>))}

\* at most this many requests.Session objects are open at once
MaxSessions == 2

\* requests.Session(): a new object, told from the open ones by its identity
requests_Session ==
    CHOOSE n \in 1..(Cardinality(open_sessions) + 1) : n \notin open_sessions

\* mutant: the process-wide cache is resolved when the session is constructed
TraceSession_init_resolving(cache) ==
    /\ session.session = None
    /\ session' = [cache |-> EffectiveCache(cache), session |-> None]
    /\ UNCHANGED <<files, dirs, global_cache, calls, last_put, gen, open_sessions,
                   scope_depth, zoned>>

\* TraceSession(cache): a TraceSession replaces the one the caller held, which
\* is outside any scope
TraceSession_init(cache) ==
    /\ session.session = None
    /\ session' = [cache |-> cache, session |-> None]
    /\ UNCHANGED <<files, dirs, global_cache, calls, last_put, gen, open_sessions,
                   scope_depth, zoned>>

\* __enter__: "self._session = requests.Session()"
TraceSession_enter ==
    /\ Cardinality(open_sessions) < MaxSessions
    /\ session' = [session EXCEPT !.session = Some(requests_Session)]
    /\ open_sessions' = open_sessions \cup {requests_Session}
    /\ scope_depth' = scope_depth + 1
    /\ UNCHANGED <<files, dirs, global_cache, calls, last_put, gen, zoned>>

\* __exit__, whatever exception ended the scope:
\* "if self._session: self._session.close(); self._session = None"
TraceSession_exit ==
    /\ session' = IF session.session # None
                  THEN [session EXCEPT !.session = None]
                  ELSE session
    /\ open_sessions' = IF session.session # None
                        THEN open_sessions \ {session.session[1]}
                        ELSE open_sessions
    /\ scope_depth' = IF scope_depth > 0 THEN scope_depth - 1 ELSE 0
    /\ UNCHANGED <<files, dirs, global_cache, calls, last_put, gen, zoned>>

\* mutant: the check of self._session is missing
TraceSession_download_traces_unchecked(t, icao, timestamp) ==
    /\ calls[t].pc = "idle"
    /\ LET effective_cache == EffectiveCache(session.cache)
           c0 == [IdleCall EXCEPT !.op = "TraceSession.download_traces",
                                  !.icao = Some(icao), !.timestamp = Some(timestamp),
                                  !.cache = session.cache,
                                  !.effective_cache = effective_cache]
       IN  calls' = [calls EXCEPT ![t] =
                Lookup(c0, Cache_get_trace_path(effective_cache[1], icao, timestamp),
                       TraceUrl(icao, timestamp))]
    /\ UNCHANGED <<files, dirs, global_cache, session, last_put, gen, open_sessions,
                   scope_depth, zoned>>

TraceSession_download_traces(t, icao, timestamp) ==
    /\ calls[t].pc = "idle"
    /\ LET effective_cache == EffectiveCache(session.cache)
           c0 == [IdleCall EXCEPT !.op = "TraceSession.download_traces",
                                  !.icao = Some(icao), !.timestamp = Some(timestamp),
                                  !.cache = session.cache,
                                  !.effective_cache = effective_cache]
       IN  calls' = [calls EXCEPT ![t] =
                IF session.session = None
                THEN [IdleCall EXCEPT !.op = "TraceSession.download_traces",
                                      !.icao = Some(icao),
                                      !.timestamp = Some(timestamp),
                                      !.cache = session.cache,
                                      !.pc = "done",
                                      !.outcome = Raise(Exc("RuntimeError"))]
                ELSE Lookup(c0, Cache_get_trace_path(effective_cache[1], icao, timestamp),
                            TraceUrl(icao, timestamp))]
    /\ UNCHANGED <<files, dirs, global_cache, session, last_put, gen, open_sessions,
                   scope_depth, zoned>>

TraceSession_download_traces_response(t, response) ==
    /\ calls[t].pc = "fetching"
    /\ calls[t].op = "TraceSession.download_traces"
    /\ LET c == calls[t]
           url == c.gets[1]
       IN  Finish(t, AfterGet(c, response,
                    Cache_get_trace_path(c.effective_cache[1], c.icao[1], c.timestamp[1]),
                    "Failed to download trace ",
                    <<"Network error downloading trace for ", Join(c.icao[1]), " from ",
                      url, ": ">>))

\* the caller takes the call's result (bytes or exception)
Returned(t) ==
    /\ calls[t].pc = "done"
    /\ calls' = [calls EXCEPT ![t] = IdleCall]
    /\ UNCHANGED <<files, dirs, global_cache, session, last_put, gen, open_sessions,
                   scope_depth, zoned>>

----------------------------------------------------------------------------
(* cache.py: the process-wide cache, and Cache methods called directly *)

SetFS(fs) ==
    /\ Cardinality(DOMAIN fs.files) <= MaxFiles
    /\ files' = fs.files
    /\ dirs' = fs.dirs

\* mutant: the cache being replaced is cleared
set_cache_clearing(cache_path) ==
    /\ SetFS(mkdir(IF global_cache # None THEN Cache_clear(FS, global_cache[1]) ELSE FS,
                   cache_path))
    /\ global_cache' = Some(Cache(cache_path))
    /\ UNCHANGED <<session, calls, last_put, gen, open_sessions, scope_depth, zoned>>

set_cache(cache_path) ==
    /\ SetFS(mkdir(FS, cache_path))
    /\ global_cache' = Some(Cache(cache_path))
    /\ UNCHANGED <<session, calls, last_put, gen, open_sessions, scope_depth, zoned>>

\* mutant: the cache is cleared and stays installed
clear_cache_keep_slot ==
    /\ SetFS(IF global_cache # None THEN Cache_clear(FS, global_cache[1]) ELSE FS)
    /\ last_put' = IF global_cache # None
                   THEN NoteClear(global_cache[1].cache_path)
                   ELSE last_put
    /\ UNCHANGED <<global_cache, session, calls, gen, open_sessions, scope_depth,
                   zoned>>

clear_cache ==
    /\ SetFS(IF global_cache # None THEN Cache_clear(FS, global_cache[1]) ELSE FS)
    /\ last_put' = IF global_cache # None
                   THEN NoteClear(global_cache[1].cache_path)
                   ELSE last_put
    /\ global_cache' = None
    /\ UNCHANGED <<session, calls, gen, open_sessions, scope_depth, zoned>>

disable_cache ==
    /\ global_cache' = None
    /\ UNCHANGED <<files, dirs, session, calls, last_put, gen, open_sessions,
                   scope_depth, zoned>>

put_heatmap(self, timestamp, data) ==
    /\ SetFS(Cache_put_heatmap(FS, self, timestamp, data))
    /\ last_put' = NotePut(self.cache_path, HeatmapKey(timestamp), None, timestamp, data)
    /\ UNCHANGED <<global_cache, session, calls, gen, open_sessions, scope_depth,
                   zoned>>

put_trace(self, icao, timestamp, data) ==
    /\ SetFS(Cache_put_trace(FS, self, icao, timestamp, data))
    /\ last_put' = NotePut(self.cache_path, TraceKey(icao, timestamp), Some(icao),
                           timestamp, data)
    /\ UNCHANGED <<global_cache, session, calls, gen, open_sessions, scope_depth,
                   zoned>>

\* another program writes a regular file under a cache root, in a directory
\* that exists or that it creates
foreign_write(p, data) ==
    /\ SetFS(write_bytes(mkdir(FS, Parent(p)), p, data))
    /\ UNCHANGED <<global_cache, session, calls, last_put, gen, open_sessions,
                   scope_depth, zoned>>

\* another program makes a directory where no regular file is
foreign_mkdir(p) ==
    /\ p \notin DOMAIN files
    /\ SetFS(mkdir(FS, p))
    /\ UNCHANGED <<global_cache, session, calls, last_put, gen, open_sessions,
                   scope_depth, zoned>>

clear(self) ==
    /\ SetFS(Cache_clear(FS, self))
    /\ last_put' = NoteClear(self.cache_path)
    /\ UNCHANGED <<global_cache, session, calls, gen, open_sessions, scope_depth,
                   zoned>>

----------------------------------------------------------------------------
(* historical.py: get_heatmap_entries.  The heatmap decoder is a library     *)
(* outside the package: what it decodes, a finite sequence of CallsignEntry, *)
(* TimestampSeparator and HeatEntry records, is an input of the generator.   *)

\* at most this many decoded records in one heatmap
MaxEntries == 4

\* a datetime of 2023-06-15, with its time of day and its tzinfo
datetime(hour, minute, second, microsecond, tzinfo) ==
    [year |-> 2023, month |-> 6, day |-> 15, hour |-> hour, minute |-> minute,
     second |-> second, microsecond |-> microsecond, tzinfo |-> tzinfo]

\* 14:29:59.000001 (naive) and 14:45:00 UTC
QueryTimestamps ==
    {datetime(14, 29, 59, 1, None), datetime(14, 45, 0, 0, Some("UTC"))}

CallsignEntry(hex_id, callsign) ==
    [cls |-> "CallsignEntry", hex_id |-> hex_id, callsign |-> callsign]

TimestampSeparator(timestamp) == [cls |-> "TimestampSeparator", timestamp |-> timestamp]

HeatEntry(hex_id, lat, lon, alt, ground_speed) ==
    [cls |-> "HeatEntry", hex_id |-> hex_id, lat |-> lat, lon |-> lon, alt |-> alt,
     ground_speed |-> ground_speed]

\* the records a decoded heatmap is made of
DecodedEntries ==
    {CallsignEntry("x", "C1"), CallsignEntry("x", "C2"), CallsignEntry("y", "C1"),
     TimestampSeparator(datetime(14, 30, 0, 0, None)),
     TimestampSeparator(datetime(15, 0, 0, 0, None)),
     HeatEntry("x", 48, 2, Some(100), Some(7)),
     HeatEntry("y", 49, 3, None, None)}

Heatmaps == UNION {[1..n -> DecodedEntries] : n \in 0..MaxEntries}

FullHeatmapEntry(timestamp, callsign, hex_id, lat, lon, alt, ground_speed) ==
    [timestamp |-> timestamp, callsign |-> callsign, hex_id |-> hex_id, lat |-> lat,
     lon |-> lon, alt |-> alt, ground_speed |-> ground_speed]

NoGenerator ==
    [pc |-> "none", timestamp |-> None, heatmap_entries |-> <<>>, pos |-> 0,
     icao_callsigns_map |-> <<>>, current_timestamp |-> None, yielded |-> <<>>]

\* mutant: only the minute is rounded
bucket_start_minute_only(timestamp) ==
    [timestamp EXCEPT !.minute = (timestamp.minute \div 30) * 30]

\* timestamp.replace(minute=(timestamp.minute // 30) * 30, second=0, microsecond=0)
bucket_start(timestamp) ==
    [timestamp EXCEPT !.minute = (timestamp.minute \div 30) * 30,
                      !.second = 0, !.microsecond = 0]

\* mutant: dict.setdefault, the first callsign seen for an id is kept
set_callsign_first(icao_callsigns_map, entry) ==
    [h \in DOMAIN icao_callsigns_map \cup {entry.hex_id} |->
        IF h \in DOMAIN icao_callsigns_map THEN icao_callsigns_map[h]
        ELSE entry.callsign]

\* icao_callsigns_map[entry.hex_id] = entry.callsign
set_callsign(icao_callsigns_map, entry) ==
    [h \in DOMAIN icao_callsigns_map \cup {entry.hex_id} |->
        IF h = entry.hex_id THEN entry.callsign ELSE icao_callsigns_map[h]]

\* icao_callsigns_map.get(hex_id)
dict_get(icao_callsigns_map, hex_id) ==
    IF hex_id \in DOMAIN icao_callsigns_map THEN Some(icao_callsigns_map[hex_id])
    ELSE None

\* the call and the generator's code up to its loop; heatmap_entries is what
\* get_heatmap(timestamp) decoded
get_heatmap_entries(timestamp, heatmap_entries) ==
    /\ gen.pc = "none"
    /\ gen' = [NoGenerator EXCEPT !.pc = "running",
                                  !.timestamp = Some(timestamp),
                                  !.heatmap_entries = heatmap_entries,
                                  !.current_timestamp = Some(bucket_start(timestamp))]
    /\ UNCHANGED <<files, dirs, global_cache, session, calls, last_put, open_sessions,
                   scope_depth, zoned>>

\* mutant: a positional record without an altitude is skipped
for_entry_skip_no_alt ==
    /\ gen.pc = "running"
    /\ gen.pos < Len(gen.heatmap_entries)
    /\ LET entry == gen.heatmap_entries[gen.pos + 1]
           g == [gen EXCEPT !.pos = gen.pos + 1]
       IN  gen' =
            IF entry.cls = "CallsignEntry"
            THEN [g EXCEPT !.icao_callsigns_map = set_callsign(gen.icao_callsigns_map, entry)]
            ELSE IF entry.cls = "TimestampSeparator"
            THEN [g EXCEPT !.current_timestamp =
                        Some([entry.timestamp EXCEPT !.tzinfo = Some("UTC")])]
            ELSE IF entry.cls = "HeatEntry" /\ entry.alt # None
            THEN [g EXCEPT !.yielded = Append(gen.yielded,
                        FullHeatmapEntry(gen.current_timestamp[1],
                                         dict_get(gen.icao_callsigns_map, entry.hex_id),
                                         entry.hex_id, entry.lat, entry.lon, entry.alt,
                                         entry.ground_speed))]
            ELSE g
    /\ UNCHANGED <<files, dirs, global_cache, session, calls, last_put, open_sessions,
                   scope_depth, zoned>>

\* one iteration of "for entry in heatmap_entries"
for_entry ==
    /\ gen.pc = "running"
    /\ gen.pos < Len(gen.heatmap_entries)
    /\ LET entry == gen.heatmap_entries[gen.pos + 1]
           g == [gen EXCEPT !.pos = gen.pos + 1]
       IN  gen' =
            IF entry.cls = "CallsignEntry"
            THEN [g EXCEPT !.icao_callsigns_map = set_callsign(gen.icao_callsigns_map, entry)]
            ELSE IF entry.cls = "TimestampSeparator"
            THEN [g EXCEPT !.current_timestamp =
                        Some([entry.timestamp EXCEPT !.tzinfo = Some("UTC")])]
            ELSE IF entry.cls = "HeatEntry"
            THEN [g EXCEPT !.yielded = Append(gen.yielded,
                        FullHeatmapEntry(gen.current_timestamp[1],
                                         dict_get(gen.icao_callsigns_map, entry.hex_id),
                                         entry.hex_id, entry.lat, entry.lon, entry.alt,
                                         entry.ground_speed))]
            ELSE g
    /\ UNCHANGED <<files, dirs, global_cache, session, calls, last_put, open_sessions,
                   scope_depth, zoned>>

\* the loop ends: the generator is exhausted
StopIteration ==
    /\ gen.pc = "running"
    /\ gen.pos = Len(gen.heatmap_entries)
    /\ gen' = NoGenerator
    /\ UNCHANGED <<files, dirs, global_cache, session, calls, last_put, open_sessions,
                   scope_depth, zoned>>

----------------------------------------------------------------------------
(* historical.py: get_zoned_heatmap_entries *)

(* Angles are in units of 1/10000 degree and distances in whole metres.  The  *)
(* zone centres are on the equator and the records on the centre's meridian  *)
(* or on the equator, where the haversine formula needs no trigonometry.     *)

\* at most this many decoded records in the heatmap of a zoned query
MaxZonedEntries == 3

\* "6371000.0", the Earth radius in metres
EarthRadius == 6371000

\* "111320.0", the metres taken for one degree of latitude
MetersPerDegree == 111320

Abs(x) == IF x < 0 THEN -x ELSE x

\* math.cos(math.radians(latitude)), for a latitude on the equator
cos_radians(latitude) == CASE latitude = 0 -> 1

\* the inlined haversine: for two points on one meridian, or both on the
\* equator, a is sin(delta / 2) ** 2 and the distance 6371000.0 * radians(delta),
\* delta their angle; pi is taken as 355/113
haversine_distance(lat1, lon1, lat2, lon2) ==
    LET delta == IF lon1 = lon2 THEN Abs(lat2 - lat1) ELSE Abs(lon2 - lon1)
    IN  ((((EarthRadius \div 1000) * delta) \div 113) * 355) \div 1800

\* the centre (0, 0) with a radius of 0 m and of 111320 m
ZoneQueries ==
    [latitude : {0}, longitude : {0}, radius : {0, MetersPerDegree}]

\* records at the centre, 1, 1.0005 and 1.002 degrees north of it, 1.0005
\* degrees south of it and 1.0005 degrees east of it
ZonedEntries ==
    {HeatEntry("x", lat, 0, None, None) : lat \in {0, 10000, 10005, 10020, -10005}}
    \cup {HeatEntry("y", 0, 10005, None, None)}

ZonedHeatmaps == UNION {[1..n -> ZonedEntries] : n \in 0..MaxZonedEntries}

NoZoned ==
    [pc |-> "none", latitude |-> 0, longitude |-> 0, radius |-> 0, min_lat |-> 0,
     max_lat |-> 0, min_lon |-> 0, max_lon |-> 0, seen |-> 0, yielded |-> <<>>]

\* the call and the generator's code up to its loop: the bounding box, and
\* the get_heatmap_entries generator it iterates (heatmap_entries is what
\* get_heatmap(timestamp) decoded)
get_zoned_heatmap_entries(timestamp, latitude, longitude, radius, heatmap_entries) ==
    /\ zoned.pc = "none"
    /\ gen.pc = "none"
    /\ LET lat_delta == (radius * 10000) \div MetersPerDegree
           lon_delta == (radius * 10000) \div (MetersPerDegree * cos_radians(latitude))
       IN  zoned' = [pc |-> "running", latitude |-> latitude, longitude |-> longitude,
                     radius |-> radius,
                     min_lat |-> latitude - lat_delta, max_lat |-> latitude + lat_delta,
                     min_lon |-> longitude - lon_delta, max_lon |-> longitude + lon_delta,
                     seen |-> 0, yielded |-> <<>>]
    /\ gen' = [NoGenerator EXCEPT !.pc = "running",
                                  !.timestamp = Some(timestamp),
                                  !.heatmap_entries = heatmap_entries,
                                  !.current_timestamp = Some(bucket_start(timestamp))]
    /\ UNCHANGED <<files, dirs, global_cache, session, calls, last_put, open_sessions,
                   scope_depth>>

\* one iteration of "for entry in heatmap_entries" over the next entry the
\* inner generator has yielded
zoned_for_entry ==
    /\ zoned.pc = "running"
    /\ zoned.seen < Len(gen.yielded)
    /\ LET entry == gen.yielded[zoned.seen + 1]
           z == [zoned EXCEPT !.seen = zoned.seen + 1]
       IN  zoned' =
            IF ~(/\ zoned.min_lat <= entry.lat /\ entry.lat <= zoned.max_lat
                 /\ zoned.min_lon <= entry.lon /\ entry.lon <= zoned.max_lon)
            THEN z
            ELSE LET distance == haversine_distance(zoned.latitude, zoned.longitude,
                                                    entry.lat, entry.lon)
                 IN  IF distance <= zoned.radius
                     THEN [z EXCEPT !.yielded = Append(zoned.yielded, entry)]
                     ELSE z
    /\ UNCHANGED <<files, dirs, global_cache, session, calls, last_put, gen,
                   open_sessions, scope_depth>>

\* the inner generator is exhausted: the loop ends
zoned_StopIteration ==
    /\ zoned.pc = "running"
    /\ gen.pos = Len(gen.heatmap_entries)
    /\ zoned.seen = Len(gen.yielded)
    /\ zoned' = NoZoned
    /\ gen' = NoGenerator
    /\ UNCHANGED <<files, dirs, global_cache, session, calls, last_put, open_sessions,
                   scope_depth>>

----------------------------------------------------------------------------
(* Specifications *)

\* the Cache instances callers hold: one per root, both constructed
Caches == {Cache(r) : r \in CacheRoots}

\* the cache argument of a download: absent, or the instance rooted at c2
CacheArgs == {None, Some(Cache(<<"c2">>))}

Init ==
    /\ files = <<>>
    /\ dirs = CacheRoots
    /\ global_cache = None
    /\ session = [cache |-> None, session |-> None]
    /\ calls = [t \in Threads |-> IdleCall]
    /\ last_put = [r \in CacheRoots |-> <<>>]
    /\ gen = NoGenerator
    /\ open_sessions = {}
    /\ scope_depth = 0
    /\ zoned = NoZoned

\* downloads, the process-wide cache and clear: every cache write is a
\* download's.  One thread: a call is made when no call is in progress, and a
\* TraceSession is entered when it is not active.
NextDownloads ==
    \/ /\ Quiescent
       /\ \E t \in MainThread, ts \in Timestamps, c \in CacheArgs :
            download_heatmap(t, ts, c)
    \/ \E t \in MainThread, r \in Responses : download_heatmap_response(t, r)
    \/ /\ Quiescent
       /\ \E t \in MainThread, i \in Icaos, ts \in TraceTimestamps, c \in CacheArgs :
            download_traces(t, i, ts, c)
    \/ \E t \in MainThread, r \in Responses : download_traces_response(t, r)
    \/ /\ Quiescent
       /\ \E c \in SessionCaches : TraceSession_init(c)
    \/ /\ Quiescent
       /\ session.session = None
       /\ TraceSession_enter
    \/ /\ Quiescent
       /\ TraceSession_exit
    \/ /\ Quiescent
       /\ \E t \in MainThread, i \in Icaos, ts \in TraceTimestamps :
            TraceSession_download_traces(t, i, ts)
    \/ \E t \in MainThread, r \in Responses : TraceSession_download_traces_response(t, r)
    \/ \E t \in MainThread : Returned(t)
    \/ /\ Quiescent
       /\ \E r \in GlobalRoots : set_cache(r)
    \/ /\ Quiescent
       /\ clear_cache
    \/ /\ Quiescent
       /\ disable_cache
    \/ /\ Quiescent
       /\ \E c \in Caches : clear(c)

Next ==
    \/ NextDownloads
    \/ /\ Quiescent
       /\ \E c \in Caches, ts \in Timestamps, d \in Bodies : put_heatmap(c, ts, d)
    \/ /\ Quiescent
       /\ \E c \in Caches, i \in Icaos, ts \in TraceTimestamps, d \in Bodies :
            put_trace(c, i, ts, d)

Spec == Init /\ [][Next]_vars

SpecDownloads == Init /\ [][NextDownloads]_vars

\* every minute of 2023-06-15
DayTimestamps ==
    [year : {2023}, month : {6}, day : {15}, hour : 0..23, minute : 0..59]

\* the GETs that store nothing
FailedResponses == {r \in Responses : r.exc # None \/ r.status_code # 200}

\* download_heatmap for every minute of a day, each GET failing
NextBuckets ==
    \/ /\ Quiescent
       /\ \E t \in MainThread, ts \in DayTimestamps, c \in CacheArgs :
            download_heatmap(t, ts, c)
    \/ \E t \in MainThread, r \in FailedResponses : download_heatmap_response(t, r)
    \/ \E t \in MainThread : Returned(t)

SpecBuckets == Init /\ [][NextBuckets]_vars

\* 2023-06-15 14:00 and 14:30, and 2023-06-16 14:00
TraceDays == {ts \in Timestamps : ts.minute # 29}

\* traces of the cache rooted at c2: put directly, downloaded through it, cleared
NextTraces ==
    \/ /\ Quiescent
       /\ \E i \in TraceIds, ts \in TraceDays, d \in Bodies :
            put_trace(Cache(<<"c2">>), i, ts, d)
    \/ /\ Quiescent
       /\ \E t \in MainThread, i \in TraceIds, ts \in TraceDays :
            download_traces(t, i, ts, Some(Cache(<<"c2">>)))
    \/ \E t \in MainThread, r \in Responses : download_traces_response(t, r)
    \/ \E t \in MainThread : Returned(t)
    \/ /\ Quiescent
       /\ clear(Cache(<<"c2">>))

SpecTraces == Init /\ [][NextTraces]_vars

\* the process-wide cache: installed on either root, written through the
\* instance set_cache returned and by downloads given no cache, cleared, disabled
NextGlobal ==
    \/ /\ Quiescent
       /\ \E r \in CacheRoots : set_cache(r)
    \/ /\ Quiescent
       /\ clear_cache
    \/ /\ Quiescent
       /\ disable_cache
    \/ /\ Quiescent
       /\ global_cache # None
       /\ \E ts \in Timestamps, d \in Bodies : put_heatmap(global_cache[1], ts, d)
    \/ /\ Quiescent
       /\ global_cache # None
       /\ \E i \in Icaos, ts \in TraceTimestamps, d \in Bodies :
            put_trace(global_cache[1], i, ts, d)
    \/ /\ Quiescent
       /\ \E c \in Caches : clear(c)
    \/ /\ Quiescent
       /\ \E t \in MainThread, ts \in Timestamps : download_heatmap(t, ts, None)
    \/ \E t \in MainThread, r \in Responses : download_heatmap_response(t, r)
    \/ \E t \in MainThread : Returned(t)

SpecGlobal == Init /\ [][NextGlobal]_vars

\* one get_heatmap_entries generator at a time, consumed to its end
NextEntries ==
    \/ /\ gen.pc = "none"
       /\ \E ts \in QueryTimestamps, h \in Heatmaps : get_heatmap_entries(ts, h)
    \/ for_entry
    \/ StopIteration

SpecEntries == Init /\ [][NextEntries]_vars

\* one TraceSession used on one thread: constructed, entered (also while it is
\* active), used for downloads, and exited
NextSession ==
    \/ /\ Quiescent
       /\ \E c \in SessionCaches : TraceSession_init(c)
    \/ /\ Quiescent
       /\ TraceSession_enter
    \/ /\ Quiescent
       /\ TraceSession_exit
    \/ /\ Quiescent
       /\ \E t \in MainThread, i \in Icaos, ts \in TraceTimestamps :
            TraceSession_download_traces(t, i, ts)
    \/ \E t \in MainThread, r \in Responses : TraceSession_download_traces_response(t, r)
    \/ \E t \in MainThread : Returned(t)

SpecSession == Init /\ [][NextSession]_vars

\* one get_zoned_heatmap_entries generator at a time, consumed to its end
NextZoned ==
    \/ /\ zoned.pc = "none"
       /\ \E ts \in QueryTimestamps, q \in ZoneQueries, h \in ZonedHeatmaps :
            get_zoned_heatmap_entries(ts, q.latitude, q.longitude, q.radius, h)
    \/ /\ zoned.pc = "running"
       /\ for_entry
    \/ zoned_for_entry
    \/ zoned_StopIteration

SpecZoned == Init /\ [][NextZoned]_vars

\* b"", b"X" and b"XY"
StoreBodies == Bodies \cup {<<88, 89>>}

\* "aB1", "B1" and "a": three identifiers, one spelling each
StoreIds == {<<"a", "B", "1">>, <<"B", "1">>, <<"a">>}

\* 2023-06-15 14:00 and 2023-06-16 14:00
StoreDays == {ts \in Timestamps : ts.minute = 0}

\* the cache rooted at c2 used through put_heatmap, put_trace and clear only,
\* each key put with one spelling and one time of day
NextStore ==
    \/ \E ts \in TraceDays, d \in StoreBodies : put_heatmap(Cache(<<"c2">>), ts, d)
    \/ \E i \in StoreIds, ts \in StoreDays, d \in StoreBodies :
            put_trace(Cache(<<"c2">>), i, ts, d)
    \/ clear(Cache(<<"c2">>))

SpecStore == Init /\ [][NextStore]_vars

\* files under c2 that the cache did not write: notes.txt in the root, a
\* .json file and a .bin.ttf file directly in heatmaps/, and a .bin.ttf file
\* directly in traces/
ForeignPaths ==
    {<<"c2", "notes.txt">>, <<"c2", "heatmaps", "0.json">>,
     <<"c2", "heatmaps", "0.bin.ttf">>, <<"c2", "traces", "0.bin.ttf">>}

\* the cache rooted at c2 used through put_heatmap, put_trace and clear, in a
\* directory where another program writes files too
NextStats ==
    \/ \E ts \in Timestamps, d \in StoreBodies : put_heatmap(Cache(<<"c2">>), ts, d)
    \/ \E i \in Icaos, ts \in TraceTimestamps, d \in StoreBodies :
            put_trace(Cache(<<"c2">>), i, ts, d)
    \/ clear(Cache(<<"c2">>))
    \/ \E p \in ForeignPaths, d \in StoreBodies : foreign_write(p, d)

SpecStats == Init /\ [][NextStats]_vars

\* 2023-06-15 14:00 and 14:29: one heatmap key
OneKey == {ts \in Timestamps : ts.day = 15 /\ ts.minute < 30}

\* 200 with b"" or b"X", and 404
SomeResponses == {r \in Responses : r.exc = None}

\* two threads downloading the heatmap of one key, with the cache rooted at
\* c2 or with the process-wide cache, which any thread installs, disables or
\* clears at any time
NextConcurrent ==
    \/ \E t \in Threads, ts \in OneKey, c \in CacheArgs : download_heatmap(t, ts, c)
    \/ \E t \in Threads, r \in SomeResponses : download_heatmap_response(t, r)
    \/ \E t \in Threads : Returned(t)
    \/ \E r \in GlobalRoots : set_cache(r)
    \/ clear_cache
    \/ disable_cache

SpecConcurrent == Init /\ [][NextConcurrent]_vars

\* the paths of the keys of the cache rooted at c2
KeyPaths ==
    {Cache_get_heatmap_path(Cache(<<"c2">>), ts) : ts \in Timestamps}
    \cup {Cache_get_trace_path(Cache(<<"c2">>), i, ts) : i \in Icaos, ts \in TraceTimestamps}

\* one thread downloading with the cache rooted at c2, in which another
\* program makes a directory where a key's file belongs, at any time
NextFaults ==
    \/ /\ Quiescent
       /\ \E t \in MainThread, ts \in Timestamps :
            download_heatmap(t, ts, Some(Cache(<<"c2">>)))
    \/ \E t \in MainThread, r \in Responses : download_heatmap_response(t, r)
    \/ /\ Quiescent
       /\ \E t \in MainThread, i \in Icaos, ts \in TraceTimestamps :
            download_traces(t, i, ts, Some(Cache(<<"c2">>)))
    \/ \E t \in MainThread, r \in Responses : download_traces_response(t, r)
    \/ \E t \in MainThread : Returned(t)
    \/ \E p \in KeyPaths : foreign_mkdir(p)
    \/ /\ Quiescent
       /\ clear(Cache(<<"c2">>))

SpecFaults == Init /\ [][NextFaults]_vars

\* one TraceSession, constructed with or without a cache, entered once and
\* never exited: every download after __enter__ is a call of the same active
\* session.  Between its calls the process-wide cache is installed on either
\* root or disabled.
NextSessionCache ==
    \/ /\ Quiescent
       /\ \E c \in SessionCaches : TraceSession_init(c)
    \/ /\ Quiescent
       /\ session.session = None
       /\ TraceSession_enter
    \/ /\ Quiescent
       /\ \E t \in MainThread, i \in StoreIds, ts \in StoreDays :
            TraceSession_download_traces(t, i, ts)
    \/ \E t \in MainThread, r \in Responses : TraceSession_download_traces_response(t, r)
    \/ \E t \in MainThread : Returned(t)
    \/ /\ Quiescent
       /\ \E r \in CacheRoots : set_cache(r)
    \/ /\ Quiescent
       /\ disable_cache

SpecSessionCache == Init /\ [][NextSessionCache]_vars

\* a Cache rooted at c1 and a Cache rooted at its subdirectory c1/sub
NestedRoots == {<<"c1">>, <<"c1", "sub">>}

NestedCaches == {Cache(r) : r \in NestedRoots}

\* both instances constructed
InitNested ==
    /\ files = <<>>
    /\ dirs = NestedRoots
    /\ global_cache = None
    /\ session = [cache |-> None, session |-> None]
    /\ calls = [t \in Threads |-> IdleCall]
    /\ last_put = [r \in NestedRoots |-> <<>>]
    /\ gen = NoGenerator
    /\ open_sessions = {}
    /\ scope_depth = 0
    /\ zoned = NoZoned

\* the two instances written and cleared directly
NextNested ==
    \/ \E c \in NestedCaches, ts \in Timestamps, d \in Bodies : put_heatmap(c, ts, d)
    \/ \E c \in NestedCaches, i \in Icaos, ts \in TraceTimestamps, d \in Bodies :
            put_trace(c, i, ts, d)
    \/ \E c \in NestedCaches : clear(c)

SpecNested == InitNested /\ [][NextNested]_vars


----------------------------------------------------------------------------
(* Vocabulary of the properties *)

\* a call enters (up to its GET or its return) / gets the result of its GET
Entered(t) == calls[t].pc = "idle" /\ calls'[t].pc # "idle"

GotResult(t) == calls[t].pc = "fetching" /\ calls'[t].pc = "done"

\* the paths created or rewritten by a step
Changed == {p \in DOMAIN files' : p \notin DOMAIN files \/ files[p] # files'[p]}

\* what the cache of a call holds for the call's key
KeyGet(fs, c) ==
    IF c.op = "download_heatmap"
    THEN Cache_get_heatmap(fs, c.effective_cache[1], c.timestamp[1])
    ELSE Cache_get_trace(fs, c.effective_cache[1], c.icao[1], c.timestamp[1])

Got200(c) ==
    c.response # None /\ c.response[1].exc = None /\ c.response[1].status_code = 200

\* the call has resolved its effective cache (all but a TraceSession call
\* outside an active scope)
Resolved(c) ==
    c.pc # "idle" /\ ~(c.outcome # None /\ c.outcome[1].raised # None
                        /\ c.outcome[1].raised[1].cls = "RuntimeError")

\* decimal text of a number, digit by digit
Digit(n) == <<"0", "1", "2", "3", "4", "5", "6", "7", "8", "9">>[n + 1]

RECURSIVE Decimal(_)
Decimal(n) == IF n < 10 THEN Digit(n) ELSE Decimal(n \div 10) \o Digit(n % 10)

TwoDigits(n) == Digit(n \div 10) \o Digit(n % 10)

FourDigits(n) == TwoDigits(n \div 100) \o TwoDigits(n % 100)

\* same year, month and day, and the same value of hour*2 + minute//30
SameBucket(t1, t2) ==
    /\ t1.year = t2.year /\ t1.month = t2.month /\ t1.day = t2.day
    /\ t1.hour * 2 + (t1.minute \div 30) = t2.hour * 2 + (t2.minute \div 30)

Absent == [exc |-> None, value |-> None]

Present(data) == [exc |-> None, value |-> Some(data)]

----------------------------------------------------------------------------
(* Properties *)

\* C1: a download of an uncached key that is answered 200 with body B makes
\* exactly one GET, writes B once to its cache under the key and returns B;
\* a call that finds the entry in its cache makes no GET and returns B.
C1_FreshDownloadThenHit ==
    [][\A t \in Threads :
        LET c == calls'[t]
            root == c.effective_cache[1].cache_path
        IN  /\ (GotResult(t) /\ c.effective_cache # None
                    /\ CallKey(c) \notin DOMAIN last_put[root] /\ Got200(c))
               => /\ Len(c.gets) = 1
                  /\ Len(c.writes) = 1
                  /\ c.writes[1].data = c.response[1].content
                  /\ Changed = {c.writes[1].path}
                  /\ DOMAIN files \subseteq DOMAIN files'
                  /\ KeyGet(FS', c) = [exc |-> None, value |-> Some(c.response[1].content)]
                  /\ c.outcome = Return(c.response[1].content)
            /\ (Entered(t) /\ c.effective_cache # None
                    /\ CallKey(c) \in DOMAIN last_put[root])
               => /\ c.pc = "done"
                  /\ c.gets = <<>>
                  /\ c.outcome = Return(last_put[root][CallKey(c)].data)
      ]_vars

\* a TraceSession call served b"" from its cache: an earlier download stored it
C1_Witness ==
    \E t \in Threads :
        /\ calls[t].pc = "done"
        /\ calls[t].op = "TraceSession.download_traces"
        /\ calls[t].effective_cache # None
        /\ calls[t].gets = <<>>
        /\ calls[t].outcome = Return(<<>>)

\* C2: a cache entry is created or changed only by a download that received
\* a 200 response, under that download's key and with that response's body.
C2_WritesOnlyAfter200 ==
    [][\A p \in Changed :
        \E t \in Threads :
            /\ GotResult(t)
            /\ Got200(calls'[t])
            /\ calls'[t].response[1].content = files'[p]
            /\ calls'[t].effective_cache # None
            /\ calls'[t].reads = {p}
            /\ KeyGet(FS', calls'[t]) = [exc |-> None, value |-> Some(files'[p])]
      ]_vars

C2_Witness ==
    \E t \in Threads :
        /\ calls[t].pc = "done"
        /\ Got200(calls[t])
        /\ calls[t].writes # <<>>
        /\ calls[t].writes[1].path \in DOMAIN files
        /\ files[calls[t].writes[1].path] = calls[t].response[1].content

\* C3: a response with a status other than 200 makes the call fail with an
\* HTTPError carrying that status and the requested URL (as field and in the
\* message); nothing is returned and the filesystem is unchanged.
C3_Non200RaisesHTTPError ==
    [][\A t \in Threads :
        LET c == calls'[t]
            e == c.outcome[1].raised[1]
        IN  (GotResult(t) /\ c.response[1].exc = None /\ c.response[1].status_code # 200)
            => /\ c.outcome[1].returned = None
               /\ c.outcome[1].raised # None
               /\ e.cls = "HTTPError"
               /\ e.status_code = Some(c.response[1].status_code)
               /\ e.url = Some(c.gets[1])
               /\ \E i \in 1..Len(e.message) : e.message[i] = c.gets[1]
               /\ c.writes = <<>>
               /\ files' = files
               /\ dirs' = dirs
      ]_vars

C3_Witness ==
    \E t \in Threads :
        /\ calls[t].pc = "done"
        /\ calls[t].response # None
        /\ calls[t].response[1].status_code = 404
        /\ calls[t].outcome[1].raised # None
        /\ calls[t].outcome[1].raised[1].cls = "HTTPError"

\* C4: a transport failure of the GET makes the call fail with a
\* DownloadError that is not an HTTPError and whose cause is the transport
\* exception; the filesystem is unchanged.
C4_TransportFailureRaisesDownloadError ==
    [][\A t \in Threads :
        LET c == calls'[t]
            e == c.outcome[1].raised[1]
        IN  (GotResult(t) /\ c.response[1].exc # None)
            => /\ c.outcome[1].returned = None
               /\ c.outcome[1].raised # None
               /\ isinstance(e, "DownloadError")
               /\ ~isinstance(e, "HTTPError")
               /\ e.cause = c.response[1].exc
               /\ c.writes = <<>>
               /\ files' = files
               /\ dirs' = dirs
      ]_vars

C4_Witness ==
    \E t \in Threads :
        /\ calls[t].pc = "done"
        /\ calls[t].response # None
        /\ calls[t].response[1].exc = Some("Timeout")
        /\ calls[t].outcome[1].raised # None
        /\ calls[t].outcome[1].raised[1].cause = Some("Timeout")

\* C5: a call issues at most one GET whatever the GET's outcome, and none
\* when its key is in its effective cache.
C5_AtMostOneGet ==
    [][\A t \in Threads :
        LET c == calls'[t]
            root == c.effective_cache[1].cache_path
        IN  /\ Len(c.gets) <= 1
            /\ GotResult(t) => c.gets = calls[t].gets
            /\ (Entered(t) /\ c.effective_cache # None
                    /\ CallKey(c) \in DOMAIN last_put[root])
               => c.gets = <<>> /\ c.pc = "done"
      ]_vars

\* a call that failed after its one GET
C5_Witness ==
    \E t \in Threads :
        /\ calls[t].pc = "done"
        /\ Len(calls[t].gets) = 1
        /\ calls[t].outcome[1].raised # None


\* the files and directories outside a root
Outside(fs, root) ==
    [files |-> [q \in {f \in DOMAIN fs.files : ~IsPrefix(root, f)} |-> fs.files[q]],
     dirs |-> {d \in fs.dirs : ~IsPrefix(root, d)}]

\* the paths a call read or wrote
Touched(c) == c.reads \cup {c.writes[i].path : i \in 1..Len(c.writes)}

\* C6: the effective cache of a call is its cache argument if given, else the
\* process-wide cache, else none.  With a cache argument, every path read or
\* written lies under that cache's root, the rest of the filesystem is left as
\* it was, and a key the argument lacks is fetched even if the process-wide
\* cache holds it.  With no effective cache the call touches no storage.
C6_EffectiveCache ==
    [][\A t \in Threads :
        LET c == calls'[t]
        IN  (Resolved(c) /\ (Entered(t) \/ GotResult(t)))
            => /\ c.effective_cache =
                    IF c.cache # None THEN c.cache ELSE global_cache
               /\ c.cache # None
                    => /\ \A p \in Touched(c) : IsPrefix(c.cache[1].cache_path, p)
                       /\ Outside(FS', c.cache[1].cache_path)
                            = Outside(FS, c.cache[1].cache_path)
                       /\ (Entered(t)
                            /\ CallKey(c) \notin DOMAIN last_put[c.cache[1].cache_path])
                          => c.pc = "fetching"
               /\ (c.cache = None /\ global_cache = None)
                    => /\ Touched(c) = {}
                       /\ files' = files
                       /\ dirs' = dirs
      ]_vars

\* a download with the cache argument c2 fetched and stored a key that the
\* process-wide cache, rooted at c1, held
C6_Witness ==
    \E t \in Threads :
        /\ calls[t].pc = "done"
        /\ calls[t].cache = Some(Cache(<<"c2">>))
        /\ global_cache = Some(Cache(<<"c1">>))
        /\ CallKey(calls[t]) \in DOMAIN last_put[<<"c1">>]
        /\ Got200(calls[t])
        /\ calls[t].writes # <<>>
        /\ IsPrefix(<<"c2">>, calls[t].writes[1].path)


\* C7: for both kinds, a get returns exactly the bytes of the most recent put
\* for its key since the last clear of the cache.
C7_GetReturnsLastPut ==
    \A r \in CacheRoots :
        /\ \A ts \in Timestamps :
            HeatmapKey(ts) \in DOMAIN last_put[r]
            => Cache_get_heatmap(FS, Cache(r), ts)
                    = Present(last_put[r][HeatmapKey(ts)].data)
        /\ \A i \in Icaos, ts \in TraceTimestamps :
            TraceKey(i, ts) \in DOMAIN last_put[r]
            => Cache_get_trace(FS, Cache(r), i, ts)
                    = Present(last_put[r][TraceKey(i, ts)].data)

\* one cache holds a heatmap put as b"X" and a trace put as b""
C7_Witness ==
    \E r \in CacheRoots, ts \in Timestamps, i \in Icaos, tt \in TraceTimestamps :
        /\ HeatmapKey(ts) \in DOMAIN last_put[r]
        /\ last_put[r][HeatmapKey(ts)].data = <<88>>
        /\ Cache_get_heatmap(FS, Cache(r), ts) = Present(<<88>>)
        /\ TraceKey(i, tt) \in DOMAIN last_put[r]
        /\ last_put[r][TraceKey(i, tt)].data = <<>>
        /\ Cache_get_trace(FS, Cache(r), i, tt) = Present(<<>>)

\* C8: a get for a key with no put since the last clear returns None and
\* raises nothing, whether or not the key's parent directory exists.
C8_GetAbsentReturnsNone ==
    \A r \in CacheRoots :
        /\ \A ts \in Timestamps :
            HeatmapKey(ts) \notin DOMAIN last_put[r]
            => Cache_get_heatmap(FS, Cache(r), ts) = Absent
        /\ \A i \in Icaos, ts \in TraceTimestamps :
            TraceKey(i, ts) \notin DOMAIN last_put[r]
            => Cache_get_trace(FS, Cache(r), i, ts) = Absent

\* a cache with one unwritten key whose directory exists (a sibling was put)
\* and one unwritten key whose directory does not
C8_Witness ==
    \E r \in CacheRoots, t1, t2 \in Timestamps :
        /\ HeatmapKey(t1) \notin DOMAIN last_put[r]
        /\ Parent(Cache_get_heatmap_path(Cache(r), t1)) \in dirs
        /\ Cache_get_heatmap(FS, Cache(r), t1) = Absent
        /\ HeatmapKey(t2) \notin DOMAIN last_put[r]
        /\ Parent(Cache_get_heatmap_path(Cache(r), t2)) \notin dirs
        /\ Cache_get_heatmap(FS, Cache(r), t2) = Absent

\* C9: two timestamps with the same date and the same hour*2 + minute//30 are
\* one heatmap key: a put_heatmap with one is returned by get_heatmap and
\* reported by has_heatmap with the other (put on every filesystem reached,
\* taken between calls), and a download with one is served from the cache the
\* entry stored for the other.
C9_SameBucketSameKey ==
    /\ [](\A c \in Caches, t1, t2 \in Timestamps, d \in Bodies :
            (Quiescent /\ SameBucket(t1, t2))
            => LET fs == Cache_put_heatmap(FS, c, t1, d)
               IN  /\ Cache_get_heatmap(fs, c, t2) = Present(d)
                   /\ Cache_has_heatmap(fs, c, t2))
    /\ [][\A t \in Threads :
            LET c == calls'[t]
                held == last_put[c.effective_cache[1].cache_path]
            IN  (Entered(t) /\ c.op = "download_heatmap" /\ c.effective_cache # None)
                => \A k \in DOMAIN held :
                    (k.kind = "heatmap" /\ SameBucket(held[k].timestamp, c.timestamp[1]))
                    => /\ c.pc = "done"
                       /\ c.gets = <<>>
                       /\ c.outcome = Return(held[k].data)
       ]_vars

\* a download for 14:29 was served the bytes a download for 14:00 stored
C9_Witness ==
    \E t \in Threads :
        LET c == calls[t]
            held == last_put[c.effective_cache[1].cache_path]
        IN  /\ c.pc = "done"
            /\ c.op = "download_heatmap"
            /\ c.effective_cache # None
            /\ c.timestamp[1].minute = 29
            /\ c.gets = <<>>
            /\ HeatmapKey(c.timestamp[1]) \in DOMAIN held
            /\ held[HeatmapKey(c.timestamp[1])].timestamp.minute = 0
            /\ c.outcome = Return(held[HeatmapKey(c.timestamp[1])].data)

\* C10: the URL download_heatmap requests and the cache path it looks up and
\* stores to carry the same date fields (YYYY, MM, DD) and the same bucket
\* index hour*2 + minute//30.
C10_UrlAndPathAgree ==
    \A t \in Threads :
        LET c == calls[t]
            ts == c.timestamp[1]
            yyyy == FourDigits(ts.year)
            mm == TwoDigits(ts.month)
            dd == TwoDigits(ts.day)
            bucket == Decimal(ts.hour * 2 + (ts.minute \div 30)) \o ".bin.ttf"
            path == c.effective_cache[1].cache_path \o <<"heatmaps", yyyy, mm, dd, bucket>>
        IN  c.op = "download_heatmap"
            => /\ c.gets # <<>>
                  => c.gets[1] = ADSBEXCHANGE_HISTORICAL_DATA_URL \o yyyy \o "/" \o mm
                                    \o "/" \o dd \o "/heatmap/" \o bucket
               /\ c.effective_cache # None
                  => /\ c.reads = {path}
                     /\ \A i \in 1..Len(c.writes) : c.writes[i].path = path
                     /\ (c.pc = "done" /\ c.writes # <<>>)
                        => Cache_get(FS, path) = Present(c.response[1].content)

\* a download for 14:30 fetched bucket 29's URL and stored under bucket 29
C10_Witness ==
    \E t \in Threads :
        /\ calls[t].pc = "done"
        /\ calls[t].op = "download_heatmap"
        /\ calls[t].timestamp[1].minute = 30
        /\ Got200(calls[t])
        /\ calls[t].writes # <<>>
        /\ calls[t].gets[1] =
            "https://globe.adsbexchange.com/globe_history/2023/06/15/heatmap/29.bin.ttf"
        /\ calls[t].writes[1].path = <<"c2", "heatmaps", "2023", "06", "15", "29.bin.ttf">>

----------------------------------------------------------------------------
(* Properties of get_heatmap_entries *)

\* the greatest position of a non-empty set of positions
Last(S) == CHOOSE q \in S : \A r \in S : r <= q

\* how many of the first p decoded records are positional records
HeatCount(s, p) == Cardinality({q \in 1..p : s[q].cls = "HeatEntry"})

\* same date and time of day, whatever the tzinfo
SameWallClock(a, b) ==
    /\ a.year = b.year /\ a.month = b.month /\ a.day = b.day
    /\ a.hour = b.hour /\ a.minute = b.minute
    /\ a.second = b.second /\ a.microsecond = b.microsecond

\* C19: every entry get_heatmap_entries emits carries the timestamp (taken as
\* UTC) of the last time-bucket separator decoded before its positional record,
\* or, with no separator before it, the query timestamp with its minute set to
\* 0 or 30 (the start of its half hour) and its second and microsecond to 0.
C19_EntryTimestamp ==
    gen.pc = "running"
    => LET s == gen.heatmap_entries
           query == gen.timestamp[1]
       IN  /\ Len(gen.yielded) = HeatCount(s, gen.pos)
           /\ \A p \in 1..gen.pos :
                s[p].cls = "HeatEntry"
                => LET e == gen.yielded[HeatCount(s, p)]
                       seps == {q \in 1..(p - 1) : s[q].cls = "TimestampSeparator"}
                   IN  /\ e.hex_id = s[p].hex_id
                       /\ e.lat = s[p].lat
                       /\ e.lon = s[p].lon
                       /\ IF seps # {}
                          THEN /\ SameWallClock(e.timestamp, s[Last(seps)].timestamp)
                               /\ e.timestamp.tzinfo = Some("UTC")
                          ELSE /\ e.timestamp.year = query.year
                               /\ e.timestamp.month = query.month
                               /\ e.timestamp.day = query.day
                               /\ e.timestamp.hour = query.hour
                               /\ e.timestamp.minute = (IF query.minute < 30 THEN 0 ELSE 30)
                               /\ e.timestamp.second = 0
                               /\ e.timestamp.microsecond = 0
                               /\ e.timestamp.tzinfo = query.tzinfo

\* queried for 14:29:59.000001: the record before any separator is emitted at
\* 14:00:00, the record after the separators 14:30 and 15:00 at 15:00
C19_Witness ==
    /\ gen.pc = "running"
    /\ gen.timestamp = Some(datetime(14, 29, 59, 1, None))
    /\ gen.pos = 4
    /\ gen.heatmap_entries[2] = TimestampSeparator(datetime(14, 30, 0, 0, None))
    /\ gen.heatmap_entries[3] = TimestampSeparator(datetime(15, 0, 0, 0, None))
    /\ Len(gen.yielded) = 2
    /\ gen.yielded[1].timestamp = datetime(14, 0, 0, 0, None)
    /\ gen.yielded[2].timestamp = datetime(15, 0, 0, 0, Some("UTC"))

\* C20: every entry get_heatmap_entries emits carries the callsign of the last
\* callsign assignment for its own aircraft id decoded before its positional
\* record, or none when there is no such assignment; what was emitted is never
\* changed by a record decoded later.
C20_EntryCallsign ==
    /\ [](gen.pc = "running"
          => LET s == gen.heatmap_entries
             IN  /\ Len(gen.yielded) = HeatCount(s, gen.pos)
                 /\ \A p \in 1..gen.pos :
                      s[p].cls = "HeatEntry"
                      => LET e == gen.yielded[HeatCount(s, p)]
                             assigned == {q \in 1..(p - 1) :
                                            /\ s[q].cls = "CallsignEntry"
                                            /\ s[q].hex_id = s[p].hex_id}
                         IN  /\ e.hex_id = s[p].hex_id
                             /\ e.callsign = IF assigned # {}
                                             THEN Some(s[Last(assigned)].callsign)
                                             ELSE None)
    /\ [][(gen.pc = "running" /\ gen'.pc = "running")
            => /\ Len(gen'.yielded) >= Len(gen.yielded)
               /\ SubSeq(gen'.yielded, 1, Len(gen.yielded)) = gen.yielded
       ]_vars

\* x is emitted as C1, then x is assigned C2 and emitted as C2; the first
\* entry still reads C1
C20_Witness ==
    /\ gen.pc = "running"
    /\ gen.pos = 4
    /\ gen.heatmap_entries[1] = CallsignEntry("x", "C1")
    /\ gen.heatmap_entries[3] = CallsignEntry("x", "C2")
    /\ Len(gen.yielded) = 2
    /\ gen.yielded[1].hex_id = "x"
    /\ gen.yielded[1].callsign = Some("C1")
    /\ gen.yielded[2].hex_id = "x"
    /\ gen.yielded[2].callsign = Some("C2")

----------------------------------------------------------------------------
(* Properties of the bucket index *)

\* the file name of bucket b
BucketName(b) == Decimal(b) \o ".bin.ttf"

\* the bucket a heatmap URL of 2023-06-15 names, -1 if it names none of 0..47
UrlBucket(url) ==
    LET named == {b \in 0..47 : url = ADSBEXCHANGE_HISTORICAL_DATA_URL
                                        \o "2023/06/15/heatmap/" \o BucketName(b)}
    IN  IF named = {} THEN -1 ELSE CHOOSE b \in named : TRUE

\* the bucket a heatmap cache path names, -1 if it names none of 0..47
PathBucket(path) ==
    LET named == {b \in 0..47 : path[Len(path)] = BucketName(b)}
    IN  IF named = {} THEN -1 ELSE CHOOSE b \in named : TRUE

MinuteOfDay(ts) == ts.hour * 60 + ts.minute

\* the timestamp one minute after ts, on the same day
NextMinute(ts) ==
    IF ts.minute < 59 THEN [ts EXCEPT !.minute = ts.minute + 1]
    ELSE [ts EXCEPT !.hour = ts.hour + 1, !.minute = 0]

\* C18: over every hour 0..23 and minute 0..59 the bucket index in the URL
\* download_heatmap requests and in the cache path it looks up is one of 0..47,
\* every one of 0..47 is the index of some minute, and the index never
\* decreases from one minute of the day to the next.
C18_BucketIndexRange ==
    /\ \A t \in Threads :
        LET c == calls[t]
        IN  c.op = "download_heatmap"
            => /\ c.gets # <<>> => UrlBucket(c.gets[1]) \in 0..47
               /\ \A p \in c.reads : PathBucket(p) \in 0..47
    /\ Quiescent
        => /\ \A b \in 0..47 : \E ts \in DayTimestamps :
                /\ HeatmapUrl(ts) = ADSBEXCHANGE_HISTORICAL_DATA_URL
                                        \o "2023/06/15/heatmap/" \o BucketName(b)
                /\ Cache_get_heatmap_path(Cache(<<"c2">>), ts)[6] = BucketName(b)
           /\ \A ts \in DayTimestamps :
                MinuteOfDay(ts) < 23 * 60 + 59
                => /\ UrlBucket(HeatmapUrl(ts)) <= UrlBucket(HeatmapUrl(NextMinute(ts)))
                   /\ PathBucket(Cache_get_heatmap_path(Cache(<<"c2">>), ts))
                        <= PathBucket(Cache_get_heatmap_path(Cache(<<"c2">>),
                                                             NextMinute(ts)))

\* the download for 23:59 requests and looks up bucket 47
C18_Witness ==
    \E t \in Threads :
        /\ calls[t].pc = "fetching"
        /\ calls[t].timestamp = Some([year |-> 2023, month |-> 6, day |-> 15,
                                      hour |-> 23, minute |-> 59])
        /\ calls[t].gets =
            <<"https://globe.adsbexchange.com/globe_history/2023/06/15/heatmap/47.bin.ttf">>
        /\ calls[t].reads = {<<"c2", "heatmaps", "2023", "06", "15", "47.bin.ttf">>}

----------------------------------------------------------------------------
(* Properties of TraceSession *)

\* C14: TraceSession.download_traces on a session that is not inside an active
\* scope (never entered, or exited) fails with a RuntimeError, which is not a
\* DownloadError, whether or not the key is cached; it issues no GET and reads
\* and writes no cache path.
C14_SessionOutsideScope ==
    [][\A t \in Threads :
        LET c == calls'[t]
            e == c.outcome[1].raised[1]
        IN  (Entered(t) /\ c.op = "TraceSession.download_traces" /\ session.session = None)
            => /\ c.pc = "done"
               /\ c.outcome[1].returned = None
               /\ c.outcome[1].raised # None
               /\ e.cls = "RuntimeError"
               /\ ~isinstance(e, "DownloadError")
               /\ ~isinstance(e, "RequestException")
               /\ c.gets = <<>>
               /\ c.reads = {}
               /\ c.writes = <<>>
               /\ files' = files
               /\ dirs' = dirs
               /\ last_put' = last_put
      ]_vars

\* the call failed on an exited or never entered session whose cache holds
\* the requested trace
C14_Witness ==
    \E t \in Threads :
        /\ calls[t].pc = "done"
        /\ calls[t].op = "TraceSession.download_traces"
        /\ session.session = None
        /\ session.cache # None
        /\ CallKey(calls[t]) \in DOMAIN last_put[session.cache[1].cache_path]
        /\ Cache_get_trace(FS, session.cache[1], calls[t].icao[1], calls[t].timestamp[1])
                # Absent
        /\ calls[t].outcome = Raise(Exc("RuntimeError"))
        /\ calls[t].gets = <<>>
        /\ calls[t].reads = {}

----------------------------------------------------------------------------
(* Properties of the trace key *)

\* the lowercase form of one character of the identifier alphabet
Lowercase(c) ==
    CASE c \in {"A", "a"} -> "a"
      [] c \in {"B", "b"} -> "b"
      [] c = "1" -> "1"

SameIgnoringCase(i1, i2) ==
    /\ Len(i1) = Len(i2)
    /\ \A k \in 1..Len(i1) : Lowercase(i1[k]) = Lowercase(i2[k])

SameDate(t1, t2) == t1.year = t2.year /\ t1.month = t2.month /\ t1.day = t2.day

\* C11: two identifiers equal ignoring case, with two timestamps of the same
\* year, month and day, are one trace key: get_trace with one returns the bytes
\* of the last put_trace (or download) with the other, and a put_trace with one
\* on any filesystem reached is returned by get_trace and reported by has_trace
\* with the other.
C11_TraceKeyIgnoresCaseAndTime ==
    LET c == Cache(<<"c2">>)
        held == last_put[<<"c2">>]
    IN  /\ \A k \in DOMAIN held : \A i \in TraceIds, ts \in TraceDays :
            (k.kind = "trace" /\ SameIgnoringCase(i, held[k].icao[1])
                /\ SameDate(ts, held[k].timestamp))
            => Cache_get_trace(FS, c, i, ts) = Present(held[k].data)
        /\ Quiescent
            => \A i1, i2 \in TraceIds, t1, t2 \in TraceDays, d \in Bodies :
                (SameIgnoringCase(i1, i2) /\ SameDate(t1, t2))
                => LET fs == Cache_put_trace(FS, c, i1, t1, d)
                   IN  /\ Cache_get_trace(fs, c, i2, t2) = Present(d)
                       /\ Cache_has_trace(fs, c, i2, t2)

\* the trace put for "aB1" at 14:00 is what get_trace returns for "Ab1" at 14:30
C11_Witness ==
    LET held == last_put[<<"c2">>]
        ts == [year |-> 2023, month |-> 6, day |-> 15, hour |-> 14, minute |-> 30]
        k == TraceKey(<<"A", "b", "1">>, ts)
    IN  /\ k \in DOMAIN held
        /\ held[k].icao = Some(<<"a", "B", "1">>)
        /\ held[k].timestamp.minute = 0
        /\ held[k].data = <<88>>
        /\ Cache_get_trace(FS, Cache(<<"c2">>), <<"A", "b", "1">>, ts) = Present(<<88>>)

\* the last two characters of an identifier in lowercase, the only one if it
\* has one
LowercaseTail(i) ==
    IF Len(i) = 1 THEN Lowercase(i[1])
    ELSE Lowercase(i[Len(i) - 1]) \o Lowercase(i[Len(i)])

RECURSIVE LowercaseText(_)
LowercaseText(i) ==
    IF i = <<>> THEN "" ELSE Lowercase(Head(i)) \o LowercaseText(Tail(i))

\* C12: for every identifier a trace download requests
\* .../YYYY/MM/DD/traces/{sub}/trace_full_{id}.json and looks up and stores
\* root/traces/YYYY/MM/DD/{sub}/trace_full_{id}.json, where id is the
\* identifier in lowercase and sub its last two characters, or its only
\* character when it has one; the length of the identifier makes no call fail.
C12_TraceSubfolder ==
    \A t \in Threads :
        LET c == calls[t]
            ts == c.timestamp[1]
            yyyy == FourDigits(ts.year)
            mm == TwoDigits(ts.month)
            dd == TwoDigits(ts.day)
            sub == LowercaseTail(c.icao[1])
            file == "trace_full_" \o LowercaseText(c.icao[1]) \o ".json"
            path == c.effective_cache[1].cache_path \o <<"traces", yyyy, mm, dd, sub, file>>
        IN  c.op = "download_traces"
            => /\ c.gets # <<>>
                  => c.gets[1] = ADSBEXCHANGE_HISTORICAL_DATA_URL \o yyyy \o "/" \o mm
                                    \o "/" \o dd \o "/traces/" \o sub \o "/" \o file
               /\ c.effective_cache # None
                  => /\ c.reads = {path}
                     /\ \A i \in 1..Len(c.writes) : c.writes[i].path = path
               /\ (c.pc = "done" /\ c.response = None)
                  => c.outcome[1].raised = None

\* the trace of "A": fetched from .../traces/a/trace_full_a.json and stored
\* under .../a/trace_full_a.json
C12_Witness ==
    \E t \in Threads :
        /\ calls[t].pc = "done"
        /\ calls[t].op = "download_traces"
        /\ calls[t].icao = Some(<<"A">>)
        /\ Got200(calls[t])
        /\ calls[t].gets[1] =
            "https://globe.adsbexchange.com/globe_history/2023/06/15/traces/a/trace_full_a.json"
        /\ calls[t].writes # <<>>
        /\ calls[t].writes[1].path =
                <<"c2", "traces", "2023", "06", "15", "a", "trace_full_a.json">>
        /\ calls[t].writes[1].path \in DOMAIN files

----------------------------------------------------------------------------
(* Properties of clear and of the process-wide cache *)

NoStats ==
    [heatmap_count |-> 0, trace_count |-> 0, heatmap_size_bytes |-> 0,
     trace_size_bytes |-> 0, total_size_bytes |-> 0]

\* the cache reports nothing stored and every key absent
Empty(fs, c) ==
    /\ Cache_get_cache_stats(fs, c) = NoStats
    /\ Cache_get_cache_size(fs, c) = 0
    /\ \A ts \in Timestamps :
        Cache_get_heatmap(fs, c, ts) = Absent /\ ~Cache_has_heatmap(fs, c, ts)
    /\ \A i \in Icaos, ts \in TraceTimestamps :
        Cache_get_trace(fs, c, i, ts) = Absent /\ ~Cache_has_trace(fs, c, i, ts)

\* what a Cache instance returns for every key
Readable(fs, c) ==
    [heatmaps |-> [ts \in Timestamps |-> Cache_get_heatmap(fs, c, ts)],
     traces |-> [x \in Icaos \X TraceTimestamps |-> Cache_get_trace(fs, c, x[1], x[2])]]

\* C13: after clear() on a cache, in whatever state it was, get_cache_stats()
\* is zero in every field, get_cache_size() is zero, and get and has report
\* every heatmap and trace key absent; so too for the process-wide cache after
\* clear_cache().
C13_ClearEmptiesCache ==
    /\ [](Quiescent => \A c \in Caches : Empty(Cache_clear(FS, c), c))
    /\ [][/\ \A c \in Caches : clear(c) => Empty(FS', c)
          /\ (clear_cache /\ global_cache # None) => Empty(FS', global_cache[1])
       ]_vars

\* a cache holding one heatmap and one trace, two bytes in all, that clear()
\* empties
C13_Witness ==
    \E c \in Caches :
        /\ Quiescent
        /\ Cache_get_cache_stats(FS, c) =
                [heatmap_count |-> 1, trace_count |-> 1, heatmap_size_bytes |-> 1,
                 trace_size_bytes |-> 1, total_size_bytes |-> 2]
        /\ Cache_get_cache_size(FS, c) = 2
        /\ Empty(Cache_clear(FS, c), c)

\* C15: get_cache() returns None while no cache was installed; set_cache(p)
\* makes it return the cache rooted at p, disable_cache() and clear_cache()
\* make it return None, and no other operation changes what it returns: the
\* last of these calls determines the slot.
C15_ActiveCacheSlot ==
    /\ get_cache = None
    /\ [][/\ \A r \in CacheRoots :
                set_cache(r) => get_cache' = Some(Cache(r)) /\ get_cache'[1].cache_path = r
          /\ clear_cache => get_cache' = None
          /\ disable_cache => get_cache' = None
          /\ ~(clear_cache \/ disable_cache \/ \E r \in CacheRoots : set_cache(r))
                => get_cache' = get_cache
       ]_vars

\* a download given no cache used the cache rooted at c2, installed after the
\* one rooted at c1 had been installed and written to
C15_Witness ==
    \E t \in Threads :
        /\ calls[t].pc = "done"
        /\ calls[t].cache = None
        /\ calls[t].effective_cache = Some(Cache(<<"c2">>))
        /\ get_cache = Some(Cache(<<"c2">>))
        /\ last_put[<<"c1">>] # <<>>

\* C16 as stated: neither clear_cache() nor disable_cache() changes what any
\* held Cache instance returns.
C16_Original ==
    [][(clear_cache \/ disable_cache)
        => \A c \in Caches : Readable(FS', c) = Readable(FS, c)
      ]_vars

\* C16: disable_cache() changes what no held Cache instance returns, and
\* clear_cache() changes what no held Cache instance rooted elsewhere than the
\* active cache returns (none at all with no active cache); an instance on the
\* active cache's root returns nothing after clear_cache().
C16_HeldInstances ==
    [][/\ disable_cache => \A c \in Caches : Readable(FS', c) = Readable(FS, c)
       /\ clear_cache
            => \A c \in Caches :
                IF global_cache # None /\ c.cache_path = global_cache[1].cache_path
                THEN Empty(FS', c)
                ELSE Readable(FS', c) = Readable(FS, c)
      ]_vars

\* both roots hold an entry and the one rooted at c1 is active: clear_cache()
\* empties it and leaves the entry held under c2
C16_Witness ==
    /\ global_cache = Some(Cache(<<"c1">>))
    /\ last_put[<<"c1">>] # <<>>
    /\ last_put[<<"c2">>] # <<>>
    /\ ~Empty(FS, Cache(<<"c1">>))
    /\ LET fs == Cache_clear(FS, global_cache[1])
       IN  /\ Empty(fs, Cache(<<"c1">>))
           /\ Readable(fs, Cache(<<"c2">>)) = Readable(FS, Cache(<<"c2">>))
           /\ ~Empty(fs, Cache(<<"c2">>))

\* C17: set_cache replaces the active cache without clearing it: no file is
\* removed or changed, and every Cache instance, one opened on the previously
\* active root included, returns what it returned before.
C17_SetCacheKeepsOld ==
    [][\A r \in CacheRoots :
        set_cache(r)
        => /\ \A f \in DOMAIN files : f \in DOMAIN files' /\ files'[f] = files[f]
           /\ \A c \in Caches : Readable(FS', c) = Readable(FS, c)
           /\ global_cache # None
                => Readable(FS', Cache(global_cache[1].cache_path))
                        = Readable(FS, global_cache[1])
      ]_vars

\* the cache rooted at c2 is active, and the entry written while the one
\* rooted at c1 was active is still returned by a Cache opened on c1
C17_Witness ==
    \E ts \in Timestamps :
        /\ global_cache = Some(Cache(<<"c2">>))
        /\ HeatmapKey(ts) \in DOMAIN last_put[<<"c1">>]
        /\ Cache_get_heatmap(FS, Cache(<<"c1">>), ts) = Present(<<88>>)

----------------------------------------------------------------------------
\* C22: whenever every __enter__ of the TraceSession has been matched by an
\* __exit__ (also after entering it again while it was active, and whatever
\* the downloads in the scope did), no requests.Session it created is open.
C22_SessionsReleased == scope_depth = 0 => open_sessions = {}

----------------------------------------------------------------------------
\* C21: at every point of its iteration, get_zoned_heatmap_entries has yielded,
\* in their order, exactly those of the entries it has taken from
\* get_heatmap_entries whose great-circle distance from the centre is at most
\* the radius: the bounding box rejects no entry within the radius.
C21_ZonedIsDistanceFilter ==
    zoned.pc = "running" =>
        LET Within(entry) ==
                haversine_distance(zoned.latitude, zoned.longitude, entry.lat, entry.lon)
                    <= zoned.radius
        IN  zoned.yielded = SelectSeq(SubSeq(gen.yielded, 1, zoned.seen), Within)

----------------------------------------------------------------------------
\* C30: whatever the state clear() is called in, also one where the root
\* directory has been removed, the root directory exists after it and nothing
\* is under it.
C30_ClearLeavesEmptyRoot ==
    \A c \in NestedCaches :
        LET fs == Cache_clear(FS, c)
        IN  /\ c.cache_path \in fs.dirs
            /\ \A p \in DOMAIN fs.files \cup fs.dirs :
                    IsPrefix(c.cache_path, p) => p = c.cache_path

----------------------------------------------------------------------------
\* the path of a call's key in the call's cache
KeyPath(c) ==
    IF c.op = "download_heatmap"
    THEN Cache_get_heatmap_path(c.effective_cache[1], c.timestamp[1])
    ELSE Cache_get_trace_path(c.effective_cache[1], c.icao[1], c.timestamp[1])

\* the step is an explicit put to the path
PutTo(p) ==
    \/ \E c \in Caches, ts \in Timestamps, d \in Bodies :
            put_heatmap(c, ts, d) /\ Cache_get_heatmap_path(c, ts) = p
    \/ \E c \in Caches, i \in Icaos, ts \in TraceTimestamps, d \in Bodies :
            put_trace(c, i, ts, d) /\ Cache_get_trace_path(c, i, ts) = p

\* the step clears a cache whose root the path is under
ClearOver(p) ==
    \/ \E c \in Caches : clear(c) /\ IsPrefix(c.cache_path, p)
    \/ clear_cache /\ global_cache # None /\ IsPrefix(global_cache[1].cache_path, p)

\* C23: a cached entry stays as written until its cache is cleared or the key
\* is put again: no other step (a download of any key, whatever its GET
\* returns, set_cache, disable_cache, a TraceSession step) removes or changes
\* it; and every download whose cache holds its key returns the held bytes at
\* once, with no GET, so that no response of the server can reach it.
C23_CachedEntryPermanent ==
    [][/\ \A p \in DOMAIN files :
            (p \notin DOMAIN files' \/ files'[p] # files[p]) => (ClearOver(p) \/ PutTo(p))
       /\ \A t \in Threads :
            LET c == calls'[t]
            IN  (Entered(t) /\ Resolved(c) /\ c.effective_cache # None
                    /\ KeyPath(c) \in DOMAIN files)
                => /\ c.pc = "done"
                   /\ c.gets = <<>>
                   /\ c.outcome = Return(files[KeyPath(c)])
                   /\ files' = files
      ]_vars

\* a download_heatmap given the cache rooted at c2, with no process-wide
\* cache, was served b"X" from it
C23_Witness ==
    \E t \in Threads :
        /\ calls[t].op = "download_heatmap"
        /\ calls[t].pc = "done"
        /\ calls[t].cache = Some(Cache(<<"c2">>))
        /\ global_cache = None
        /\ calls[t].gets = <<>>
        /\ calls[t].outcome = Return(<<88>>)

----------------------------------------------------------------------------
\* the keys of one kind put in a cache since its last clear
KeysOf(root, kind) == {k \in DOMAIN last_put[root] : k.kind = kind}

\* the total length of the bytes last put under a set of keys
RECURSIVE PutSize(_, _)
PutSize(root, keys) ==
    IF keys = {} THEN 0
    ELSE LET k == CHOOSE x \in keys : TRUE
         IN  Len(last_put[root][k].data) + PutSize(root, keys \ {k})

\* the files under c2 that no put wrote
Foreign == ForeignPaths \cap DOMAIN files

\* C26: get_cache_stats counts, in heatmaps/ the files named *.bin.ttf and in
\* traces/ the files named *.json, and nothing else; total_size_bytes is the
\* sum of its two sizes; get_cache_size, which adds every regular file under
\* the root, is never less; and where only put_heatmap, put_trace and clear
\* have written under the root, both sizes are the total length of the bytes
\* put and the counts are the numbers of distinct keys put.
C26_StatsAndSize ==
    LET c == Cache(<<"c2">>)
        root == c.cache_path
        stats == Cache_get_cache_stats(FS, c)
        size == Cache_get_cache_size(FS, c)
        heatmaps == KeysOf(root, "heatmap")
        traces == KeysOf(root, "trace")
        counted == Foreign \cap {<<"c2", "heatmaps", "0.bin.ttf">>}
    IN  /\ stats.total_size_bytes = stats.heatmap_size_bytes + stats.trace_size_bytes
        /\ size >= stats.total_size_bytes
        /\ stats.heatmap_count = Cardinality(heatmaps) + Cardinality(counted)
        /\ stats.trace_count = Cardinality(traces)
        /\ stats.heatmap_size_bytes
                = PutSize(root, heatmaps) + st_size_sum(FS, counted)
        /\ stats.trace_size_bytes = PutSize(root, traces)
        /\ size = stats.total_size_bytes + st_size_sum(FS, Foreign \ counted)
        /\ Foreign = {}
            => /\ size = stats.total_size_bytes
               /\ size = PutSize(root, DOMAIN last_put[root])
               /\ stats.heatmap_count = Cardinality(heatmaps)
               /\ stats.trace_count = Cardinality(traces)

\* a cache holding one heatmap of two bytes and notes.txt of one byte: the
\* size is 3 and the statistics' total is 2
C26_Witness ==
    LET c == Cache(<<"c2">>)
    IN  /\ Cache_get_cache_stats(FS, c).heatmap_count = 1
        /\ Cache_get_cache_stats(FS, c).total_size_bytes = 2
        /\ Cache_get_cache_size(FS, c) = 3
        /\ <<"c2", "notes.txt">> \in DOMAIN files

----------------------------------------------------------------------------
\* the arguments a key is named by: a timestamp, or an identifier and a timestamp
KeyArgs ==
    [icao : {None}, timestamp : Timestamps]
    \cup [icao : {Some(i) : i \in TraceIds}, timestamp : TraceDays]

KeyOf(a) ==
    IF a.icao = None THEN HeatmapKey(a.timestamp) ELSE TraceKey(a.icao[1], a.timestamp)

GetOf(fs, c, a) ==
    IF a.icao = None THEN Cache_get_heatmap(fs, c, a.timestamp)
    ELSE Cache_get_trace(fs, c, a.icao[1], a.timestamp)

PutOf(fs, c, a, d) ==
    IF a.icao = None THEN Cache_put_heatmap(fs, c, a.timestamp, d)
    ELSE Cache_put_trace(fs, c, a.icao[1], a.timestamp, d)

\* C27: in whatever state of the cache, put_heatmap for one (date, bucket) is
\* read back under that key and leaves what get returns for every other
\* heatmap key and for every trace key as it was, and put_trace for one
\* (identifier ignoring case, date) is read back under that key and leaves
\* what get returns for every other trace key and every heatmap key as it was:
\* distinct keys, of one kind or of the two kinds, never share a file.
C27_KeysInjective ==
    LET c == Cache(<<"c2">>)
    IN  \A a \in KeyArgs, d \in StoreBodies :
            LET fs == PutOf(FS, c, a, d)
            IN  \A x \in KeyArgs :
                    GetOf(fs, c, x) =
                        IF KeyOf(x) = KeyOf(a) THEN Present(d) ELSE GetOf(FS, c, x)

\* the cache holds b"X" for the 14:30 heatmap of 2023-06-15 and b"XY" for the
\* trace of "B1" of that day: a put to the 14:00 heatmap or to the trace of
\* "aB1" has entries of both kinds to leave alone
C27_Witness ==
    LET c == Cache(<<"c2">>)
        day == [year |-> 2023, month |-> 6, day |-> 15, hour |-> 14, minute |-> 30]
    IN  /\ Cache_get_heatmap(FS, c, day) = Present(<<88>>)
        /\ Cache_get_trace(FS, c, <<"B", "1">>, day) = Present(<<88, 89>>)
        /\ Cache_get_heatmap(FS, c, [day EXCEPT !.minute = 0]) = Absent
        /\ Cache_get_trace(FS, c, <<"a", "B", "1">>, day) = Absent

----------------------------------------------------------------------------
\* C28: in every state reached through put_heatmap, put_trace and clear, for
\* every key the read raises nothing and the existence check is true exactly
\* when the read returns bytes (the existence check, a test of the path,
\* raises nothing in any state).
C28_HasAgreesWithGet ==
    LET c == Cache(<<"c2">>)
    IN  /\ \A ts \in Timestamps :
            /\ Cache_get_heatmap(FS, c, ts).exc = None
            /\ Cache_has_heatmap(FS, c, ts) <=> Cache_get_heatmap(FS, c, ts).value # None
        /\ \A i \in TraceIds, ts \in TraceDays :
            /\ Cache_get_trace(FS, c, i, ts).exc = None
            /\ Cache_has_trace(FS, c, i, ts) <=> Cache_get_trace(FS, c, i, ts).value # None

\* the 14:00 heatmap of 2023-06-15 is stored and the 14:30 one, in the same
\* directory, is not; the trace of "A" is stored and, for the same day, the
\* trace of "B1" is not
C28_Witness ==
    LET c == Cache(<<"c2">>)
        day == [year |-> 2023, month |-> 6, day |-> 15, hour |-> 14, minute |-> 0]
    IN  /\ Cache_has_heatmap(FS, c, day)
        /\ ~Cache_has_heatmap(FS, c, [day EXCEPT !.minute = 30])
        /\ Cache_has_trace(FS, c, <<"a">>, day)
        /\ ~Cache_has_trace(FS, c, <<"B", "1">>, day)

----------------------------------------------------------------------------
\* C24: with two threads downloading one key through one cache root, every
\* call that missed issues exactly one GET of its own, whatever the other
\* call is doing; a call answered 200 returns the body of its own response
\* and stores it, so that the key then holds that body, whatever an earlier
\* store of the other call had left there: the last store wins.  (That both
\* calls can miss is the witness.)
C24_LastStoreWins ==
    [][\A t \in Threads :
        LET c == calls'[t]
        IN  /\ (Entered(t) /\ c.effective_cache # None /\ KeyPath(c) \notin DOMAIN files)
                => c.pc = "fetching" /\ Len(c.gets) = 1
            /\ (GotResult(t) /\ Got200(c))
                => /\ Len(c.gets) = 1
                   /\ c.outcome = Return(c.response[1].content)
                   /\ c.effective_cache # None
                        => /\ KeyGet(FS', c) = Present(c.response[1].content)
                           /\ Changed \subseteq {KeyPath(c)}
                           /\ last_put'[c.effective_cache[1].cache_path][CallKey(c)].data
                                = c.response[1].content
      ]_vars

\* both threads missed the key in the cache rooted at c2 and fetched it; the
\* first got b"X" and the second b"", each returned its own, and the cache
\* holds b"X", stored last
C24_Witness ==
    LET c1 == calls["t1"]
        c2 == calls["t2"]
    IN  /\ c1.pc = "done" /\ c2.pc = "done"
        /\ c1.effective_cache = Some(Cache(<<"c2">>))
        /\ c2.effective_cache = Some(Cache(<<"c2">>))
        /\ Len(c1.gets) = 1 /\ Len(c2.gets) = 1
        /\ c1.outcome = Return(<<88>>)
        /\ c2.outcome = Return(<<>>)
        /\ c1.writes # <<>> /\ c2.writes # <<>>
        /\ KeyGet(FS, c1) = Present(<<88>>)

----------------------------------------------------------------------------
\* C25: the effective cache of a call is fixed at its entry (the cache
\* argument, else the process-wide cache of that moment) and is not looked up
\* again: whatever set_cache, disable_cache or clear_cache did to the
\* process-wide reference while the call was blocked on its GET, a 200
\* response is written to the cache the lookup read, at the path the lookup
\* read, and is written nowhere if the call had no effective cache.
C25_EffectiveCacheFixed ==
    [][\A t \in Threads :
        LET c == calls'[t]
        IN  /\ Entered(t) =>
                c.effective_cache = IF c.cache # None THEN c.cache ELSE global_cache
            /\ GotResult(t) =>
                /\ c.effective_cache = calls[t].effective_cache
                /\ c.reads = calls[t].reads
            /\ (GotResult(t) /\ Got200(c) /\ c.effective_cache # None) =>
                /\ c.reads = {KeyPath(c)}
                /\ c.writes = <<[path |-> KeyPath(c), data |-> c.response[1].content]>>
                /\ files'[KeyPath(c)] = c.response[1].content
                /\ Outside(FS', c.effective_cache[1].cache_path)
                        = Outside(FS, c.effective_cache[1].cache_path)
            /\ (GotResult(t) /\ Got200(c) /\ c.effective_cache = None) =>
                /\ c.reads = {} /\ c.writes = <<>>
                /\ files' = files /\ dirs' = dirs
      ]_vars

\* two calls given no cache argument, both answered 200: one entered while
\* the cache rooted at c1 was active and wrote to it although no cache is
\* active now, the other entered with no cache active and wrote nothing
\* although one had been installed by the time of its response
C25_Witness ==
    \E t, u \in Threads :
        /\ calls[t].pc = "done" /\ calls[u].pc = "done"
        /\ calls[t].cache = None /\ calls[u].cache = None
        /\ calls[t].effective_cache = Some(Cache(<<"c1">>))
        /\ calls[t].writes # <<>>
        /\ calls[u].effective_cache = None
        /\ Got200(calls[u])
        /\ calls[u].writes = <<>>
        /\ global_cache = None
        /\ KeyGet(FS, calls[t]) = Present(calls[t].response[1].content)

----------------------------------------------------------------------------
\* C29: a download whose cache lookup fails with a filesystem error other
\* than file-not-found (the key's path is a directory) raises that error,
\* issues no GET and changes nothing; a download whose write-through fails
\* with such an error after a 200 response raises that error, not an
\* HTTPError or a DownloadError, and returns no bytes.
C29_StorageFaultPropagates ==
    [][\A t \in Threads :
        LET c == calls'[t]
            fault == Raise(Exc("IsADirectoryError"))
        IN  /\ (Entered(t) /\ c.effective_cache # None /\ KeyPath(c) \in dirs)
                => /\ c.pc = "done"
                   /\ c.gets = <<>>
                   /\ c.outcome = fault
                   /\ files' = files /\ dirs' = dirs
            /\ (GotResult(t) /\ Got200(c) /\ c.effective_cache # None
                    /\ KeyPath(c) \in dirs)
                => /\ c.outcome = fault
                   /\ ~isinstance(c.outcome[1].raised[1], "DownloadError")
                   /\ c.outcome[1].returned = None
                   /\ c.writes = <<>>
                   /\ files' = files /\ dirs' = dirs
      ]_vars

\* a download_heatmap missed, fetched b"X" with status 200, and failed with
\* IsADirectoryError in its write-through: the directory was made at its
\* key's path while it was blocked on the GET
C29_Witness ==
    \E t \in Threads :
        /\ calls[t].pc = "done"
        /\ calls[t].op = "download_heatmap"
        /\ Len(calls[t].gets) = 1
        /\ Got200(calls[t])
        /\ calls[t].response[1].content = <<88>>
        /\ calls[t].outcome = Raise(Exc("IsADirectoryError"))

----------------------------------------------------------------------------
\* the id, position, altitude and ground speed of a record or of an entry
Position(e) ==
    [hex_id |-> e.hex_id, lat |-> e.lat, lon |-> e.lon, alt |-> e.alt,
     ground_speed |-> e.ground_speed]

IsHeatEntry(e) == e.cls = "HeatEntry"

\* C31: what get_heatmap_entries has emitted after any number of decoded
\* records is, in decode order, one entry for each positional record among
\* them, with that record's id, latitude, longitude, altitude and ground
\* speed, and nothing for a callsign assignment or a separator; one record
\* adds one entry if it is positional and none otherwise.
C31_OneEntryPerPosition ==
    /\ [](gen.pc = "running"
          => LET heat == SelectSeq(SubSeq(gen.heatmap_entries, 1, gen.pos), IsHeatEntry)
             IN  /\ Len(gen.yielded) = Len(heat)
                 /\ \A i \in 1..Len(heat) : Position(gen.yielded[i]) = Position(heat[i]))
    /\ [][(gen.pc = "running" /\ gen'.pc = "running" /\ gen'.pos = gen.pos + 1)
            => Len(gen'.yielded) =
                    Len(gen.yielded)
                    + (IF IsHeatEntry(gen.heatmap_entries[gen'.pos]) THEN 1 ELSE 0)
       ]_vars

\* the heatmap (y without altitude, a callsign, x with altitude, a separator)
\* decoded to its end: two entries, y then x
C31_Witness ==
    /\ gen.pc = "running"
    /\ gen.pos = 4
    /\ gen.heatmap_entries =
            <<HeatEntry("y", 49, 3, None, None), CallsignEntry("x", "C1"),
              HeatEntry("x", 48, 2, Some(100), Some(7)),
              TimestampSeparator(datetime(14, 30, 0, 0, None))>>
    /\ Len(gen.yielded) = 2
    /\ Position(gen.yielded[1]) = Position(HeatEntry("y", 49, 3, None, None))
    /\ Position(gen.yielded[2]) = Position(HeatEntry("x", 48, 2, Some(100), Some(7)))

----------------------------------------------------------------------------
\* C32: a TraceSession keeps the cache it was constructed with, or none, and
\* no set_cache, disable_cache or download changes what it keeps.  Each
\* download_traces call of an active session constructed without a cache uses
\* the process-wide cache of the moment of the call: it reads its key there
\* and nowhere else (no lookup when none is active) and writes a 200 response
\* there and nowhere else, whatever cache an earlier call of the session
\* used.  A call of a session constructed with a cache uses that cache,
\* whatever the process-wide cache is.
C32_SessionCacheResolvedPerCall ==
    [][/\ \A a \in SessionCaches : TraceSession_init(a) => session'.cache = a
       /\ ((\E r \in CacheRoots : set_cache(r)) \/ disable_cache) => session' = session
       /\ \A t \in Threads :
            LET c == calls'[t]
                mine == c.op = "TraceSession.download_traces"
            IN  /\ (Entered(t) /\ mine /\ session.session # None)
                    => /\ session' = session
                       /\ c.effective_cache =
                            IF session.cache # None THEN session.cache ELSE global_cache
                       /\ c.effective_cache = None
                            => c.reads = {} /\ c.pc = "fetching"
                       /\ c.effective_cache # None
                            => /\ c.reads = {KeyPath(c)}
                               /\ IsPrefix(c.effective_cache[1].cache_path, KeyPath(c))
                               /\ c.pc = "done" <=> KeyPath(c) \in DOMAIN files
                /\ (GotResult(t) /\ mine /\ Got200(c))
                    => /\ session' = session
                       /\ c.effective_cache = calls[t].effective_cache
                       /\ c.effective_cache = None => files' = files /\ dirs' = dirs
                       /\ c.effective_cache # None
                            => /\ files'[KeyPath(c)] = c.response[1].content
                               /\ Changed \subseteq {KeyPath(c)}
                               /\ Outside(FS', c.effective_cache[1].cache_path)
                                    = Outside(FS, c.effective_cache[1].cache_path)
      ]_vars

\* a session constructed without a cache is active; one of its calls stored
\* the trace of "aB1" in the process-wide cache rooted at c1; after
\* disable_cache its next call for the same trace fetched it again, got b"X"
\* with status 200 and wrote nothing, the entry in c1 still holding b""
C32_Witness ==
    \E t \in Threads :
        LET c == calls[t]
            held == Cache_get_trace(FS, Cache(<<"c1">>), c.icao[1], c.timestamp[1])
        IN  /\ c.pc = "done"
            /\ c.op = "TraceSession.download_traces"
            /\ session.cache = None /\ session.session # None
            /\ global_cache = None
            /\ c.effective_cache = None
            /\ c.icao = Some(<<"a", "B", "1">>)
            /\ Len(c.gets) = 1
            /\ Got200(c)
            /\ c.outcome = Return(<<88>>)
            /\ c.writes = <<>>
            /\ held = Present(<<>>)

====
